---- MODULE Spec2Model ----
(***************************************************************************)
(* A model of SwimLiveSystem (src/SwimLive.py): the console byte decoder,  *)
(* the roster file parser and its caches, the race timing state machine,   *)
(* the chunked file receiver and the WebSocket hub.                        *)
(*                                                                         *)
(* Strings are sequences of character codes (Python's ord), so chr/ord     *)
(* are the identity on codes and upper/lower/isdigit are arithmetic.       *)
(* Clock values are integers in hundredths of a second; wall-clock time    *)
(* (time.time()) is an integer in milliseconds.                            *)
(***************************************************************************)
EXTENDS Integers, Sequences, FiniteSets, TLC

\* ------------------------------------------------------------------------
\* Bounds of the model
\* ------------------------------------------------------------------------
\* a tick is taken only while every lane has received fewer times than this
MaxCount == 2
\* wall-clock time stops advancing at StartTime + MaxElapsed (milliseconds)
MaxElapsed == 10000
\* the main loop ticks only while at most this many messages are queued
MaxBacklog == 0

\* ------------------------------------------------------------------------
\* Python values
\* ------------------------------------------------------------------------
\* Python's None where a number is expected (no valid number is negative)
None == -1

Max(a, b) == IF a >= b THEN a ELSE b

Min(a, b) == IF a <= b THEN a ELSE b

\* str.isspace for one character
IsSpace(c) == c \in {9, 10, 11, 12, 13, 28, 29, 30, 31, 32}

\* str.isdigit for one character
IsDigit(c) == c \in 48..57

\* str.lower for one character
LowerChar(c) == IF c \in 65..90 THEN c + 32 ELSE c

\* str.upper for one character
UpperChar(c) == IF c \in 97..122 THEN c - 32 ELSE c

Lower(s) == [i \in 1..Len(s) |-> LowerChar(s[i])]

Upper(s) == [i \in 1..Len(s) |-> UpperChar(s[i])]

\* str.isdigit: non-empty and every character a digit
IsDigitStr(s) == Len(s) > 0 /\ \A i \in 1..Len(s) : IsDigit(s[i])

RECURSIVE LStrip(_)
LStrip(s) == IF s # <<>> /\ IsSpace(Head(s)) THEN LStrip(Tail(s)) ELSE s

RECURSIVE RStrip(_)
RStrip(s) ==
  IF s # <<>> /\ IsSpace(s[Len(s)]) THEN RStrip(SubSeq(s, 1, Len(s) - 1)) ELSE s

\* str.strip()
Strip(s) == LStrip(RStrip(s))

\* str.lstrip(chars) for a one-character set
RECURSIVE LStripChar(_, _)
LStripChar(s, c) == IF s # <<>> /\ Head(s) = c THEN LStripChar(Tail(s), c) ELSE s

\* int(s) for a string of digits, most significant first
RECURSIVE DigitsToInt(_)
DigitsToInt(s) ==
  IF s = <<>> THEN 0
  ELSE 10 * DigitsToInt(SubSeq(s, 1, Len(s) - 1)) + (s[Len(s)] - 48)

\* int(s): surrounding whitespace is accepted, anything else than digits
\* raises ValueError (None here)
ParseInt(s) ==
  LET Value(t) == IF IsDigitStr(t) THEN DigitsToInt(t) ELSE None
  IN Value(Strip(s))

\* the characters of s that are not c: s.replace(c, "")
RemoveChar(s, c) == SelectSeq(s, LAMBDA x : x # c)

\* c in s
Contains(s, c) == \E i \in 1..Len(s) : s[i] = c

\* s.split(sep) for a one-character separator: the list of fields
RECURSIVE SplitOn(_, _)
SplitOn(s, sep) ==
  LET At(i) == <<SubSeq(s, 1, i - 1)>> \o SplitOn(SubSeq(s, i + 1, Len(s)), sep)
  IN IF ~Contains(s, sep) THEN <<s>>
     ELSE At(CHOOSE k \in 1..Len(s) : s[k] = sep /\ \A j \in 1..(k - 1) : s[j] # sep)

\* s.split(): the maximal runs of non-whitespace characters
RECURSIVE SplitWords(_)
SplitWords(s) ==
  LET Cut(t, n) == <<SubSeq(t, 1, n)>> \o SplitWords(SubSeq(t, n + 1, Len(t)))
      Words(t) ==
        IF t = <<>> THEN <<>>
        ELSE Cut(t, IF \E k \in 1..Len(t) : IsSpace(t[k])
                    THEN (CHOOSE k \in 1..Len(t) :
                            IsSpace(t[k]) /\ \A j \in 1..(k - 1) : ~IsSpace(t[j])) - 1
                    ELSE Len(t))
  IN Words(LStrip(s))

\* s.zfill(width)
RECURSIVE ZFill(_, _)
ZFill(s, width) == IF Len(s) >= width THEN s ELSE ZFill(<<48>> \o s, width)

\* s.ljust(width, '0')
RECURSIVE LJustZero(_, _)
LJustZero(s, width) == IF Len(s) >= width THEN s ELSE LJustZero(s \o <<48>>, width)

\* the concatenation of a sequence of strings
RECURSIVE Concat(_)
Concat(ss) == IF ss = <<>> THEN <<>> ELSE Head(ss) \o Concat(Tail(ss))

\* ------------------------------------------------------------------------
\* Class constants of SwimLiveSystem
\* ------------------------------------------------------------------------
SPACE_ASCII == 32
BLANK_CHAR == 32
CHANNELS == 32
CHARS_PER_CHANNEL == 8
CONTROL_BYTE_THRESHOLD == 127
\* a clear threshold as low as the control threshold: every control byte clears
ClearAtControlThreshold == CONTROL_BYTE_THRESHOLD

CLEAR_CHANNEL_THRESHOLD == 190
EVENT_HEAT_CHANNEL == 12
RACE_TIME_CHANNEL == 0
\* seconds * 1000
TIMER_SYNC_INTERVAL == 100
\* a compensation of the console latency as long as the sync interval
LatencyOfSyncInterval == TIMER_SYNC_INTERVAL

\* seconds * 100
TIMER_LATENCY_COMPENSATION == 25
\* seconds * 1000
DQ_STALE_TIMEOUT == 5000

\* lane numbers, range(1, 9)
Lanes == 1..8

\* str(lane)
LaneStr(lane) == <<48 + lane>>

\* ------------------------------------------------------------------------
\* State
\* ------------------------------------------------------------------------
VARIABLES
  \* the decoder
  display,            \* channel -> cell -> byte
  stream_state,       \* [data_readout, channel]
  \* the roster directory and the caches over it
  files,              \* file name -> bytes, for the files that exist
  event_cache,        \* event id -> cleaned name
  swimmer_cache,      \* event id -> list of heats
  \* the race state
  last_event, last_heat, last_event_name, last_race_time,
  last_swimmers,      \* lane -> [name, club]; empty before the first event
  last_finish_times,  \* lane -> last raw time, for the lanes that have one
  lane_time_counts, expected_times_per_lane,
  active_lanes, last_active_lanes, last_lane_check_time,
  pending_active_lanes,   \* <<>> while unset/None, else <<set>>
  saved_sent_for_heat, dq_sent_for_heat,
  timer_running, timer_start_time, timer_offset, last_sync_time,
  \* the hub
  running, websocket_clients, data_queue,
  broadcaster,        \* where _websocket_broadcaster is: [pc, message, todo, disconnected]
  handler_pc,         \* client -> where its _websocket_handler is
  connection,         \* client -> "open" or "closed": the state of its socket
  received,           \* client -> the messages delivered to it, in order
  \* the file receiver
  com_buffers,
  \* the poll of the main loop in progress: <<>>, or <<fs>> when the poll has
  \* read the roster file of an event from the directory fs and not yet cached it
  lookup,
  \* wall clock, time.time() in milliseconds
  now,
  \* history of the run, read by the properties only
  h_saved,            \* SAVED messages queued since the last event/heat change
  h_dq,               \* lane -> Disqualification messages since that change
  h_finish,           \* lane -> FinishTime messages since that change
  h_raw,              \* lane -> the raw time of the last of them, <<>> when none
  h_round,            \* the broadcast of the message last dequeued: [clients, log]
  h_expect,           \* per client, the messages dequeued while it was in websocket_clients
  h_written,          \* <<>> or <<w>>, w the file the last packet made the receiver write
  h_packet            \* <<>> or <<line>>, the line the receiver processed last

decoderVars == <<display, stream_state>>

fileVars == <<files, event_cache, swimmer_cache>>

raceVars == <<last_event, last_heat, last_event_name, last_race_time, last_swimmers,
              last_finish_times, lane_time_counts, expected_times_per_lane,
              active_lanes, last_active_lanes, last_lane_check_time,
              pending_active_lanes, saved_sent_for_heat, dq_sent_for_heat,
              timer_running, timer_start_time, timer_offset, last_sync_time>>

hubVars == <<websocket_clients, broadcaster, handler_pc, connection, received>>

raceHistory == <<h_saved, h_dq, h_finish, h_raw>>

hubHistory == <<h_round, h_expect>>

fileHistory == <<h_written, h_packet>>

vars == <<decoderVars, fileVars, raceVars, hubVars, running, data_queue, com_buffers,
          lookup, now, raceHistory, hubHistory, fileHistory>>

\* ------------------------------------------------------------------------
\* Channel display decoder
\* ------------------------------------------------------------------------
\* a reset that leaves the last cell of the channel showing '0'
BlankChannelButLast ==
  [i \in 0..(CHARS_PER_CHANNEL - 1) |-> IF i = CHARS_PER_CHANNEL - 1 THEN 48 ELSE SPACE_ASCII]

BlankChannel == [i \in 0..(CHARS_PER_CHANNEL - 1) |-> SPACE_ASCII]

BlankDisplay == [c \in 0..(CHANNELS - 1) |-> BlankChannel]

\* a decoder that takes bits 1-6 of a control byte as the channel
ProcessByteWideChannel(d, byte_in) ==
  IF byte_in > CONTROL_BYTE_THRESHOLD
  THEN LET ch == (byte_in \div 2) % 64
           ss == [data_readout |-> (byte_in % 2) = 0, channel |-> ch]
       IN IF ch >= CHANNELS THEN [display |-> d.display, stream_state |-> ss]
          ELSE IF byte_in > CLEAR_CHANNEL_THRESHOLD
          THEN [display |-> [d.display EXCEPT ![ch] = BlankChannel],
                stream_state |-> ss]
          ELSE [display |-> d.display, stream_state |-> ss]
  ELSE IF ~d.stream_state.data_readout THEN d
  ELSE LET segment_num == (byte_in \div 16) % 16
           segment_data == byte_in % 16
           channel == d.stream_state.channel
       IN IF segment_num >= CHARS_PER_CHANNEL THEN d
          ELSE IF channel > 0 /\ segment_data = 0
          THEN [d EXCEPT !.display[channel][segment_num] = SPACE_ASCII]
          ELSE [d EXCEPT !.display[channel][segment_num] = (15 - segment_data) + 48]

\* a decoder that stores the nibble of a data byte without complementing it
ProcessBytePlainNibble(d, byte_in) ==
  IF byte_in > CONTROL_BYTE_THRESHOLD
  THEN LET ch == 31 - ((byte_in \div 2) % 32)
           ss == [data_readout |-> (byte_in % 2) = 0, channel |-> ch]
       IN IF ch >= CHANNELS THEN [display |-> d.display, stream_state |-> ss]
          ELSE IF byte_in > CLEAR_CHANNEL_THRESHOLD
          THEN [display |-> [d.display EXCEPT ![ch] = BlankChannel],
                stream_state |-> ss]
          ELSE [display |-> d.display, stream_state |-> ss]
  ELSE IF ~d.stream_state.data_readout THEN d
  ELSE LET segment_num == (byte_in \div 16) % 16
           segment_data == byte_in % 16
           channel == d.stream_state.channel
       IN IF segment_num >= CHARS_PER_CHANNEL THEN d
          ELSE IF channel > 0 /\ segment_data = 0
          THEN [d EXCEPT !.display[channel][segment_num] = SPACE_ASCII]
          ELSE [d EXCEPT !.display[channel][segment_num] = segment_data + 48]

\* a decoder that stores a data byte whether the readout is enabled or not
ProcessByteUngated(d, byte_in) ==
  IF byte_in > CONTROL_BYTE_THRESHOLD
  THEN LET ch == 31 - ((byte_in \div 2) % 32)
           ss == [data_readout |-> (byte_in % 2) = 0, channel |-> ch]
       IN IF ch >= CHANNELS THEN [display |-> d.display, stream_state |-> ss]
          ELSE IF byte_in > CLEAR_CHANNEL_THRESHOLD
          THEN [display |-> [d.display EXCEPT ![ch] = BlankChannel],
                stream_state |-> ss]
          ELSE [display |-> d.display, stream_state |-> ss]
  ELSE LET segment_num == (byte_in \div 16) % 16
           segment_data == byte_in % 16
           channel == d.stream_state.channel
       IN IF segment_num >= CHARS_PER_CHANNEL THEN d
          ELSE IF channel > 0 /\ segment_data = 0
          THEN [d EXCEPT !.display[channel][segment_num] = SPACE_ASCII]
          ELSE [d EXCEPT !.display[channel][segment_num] = (15 - segment_data) + 48]

\* _process_byte on the pair (display, stream_state): d.display, d.stream_state
ProcessByte(d, byte_in) ==
  IF byte_in > CONTROL_BYTE_THRESHOLD
  THEN \* (x & 0x1F) ^ 0x1F = 31 - (x mod 32)
       LET ch == 31 - ((byte_in \div 2) % 32)
           ss == [data_readout |-> (byte_in % 2) = 0, channel |-> ch]
       IN IF ch >= CHANNELS THEN [display |-> d.display, stream_state |-> ss]
          ELSE IF byte_in > CLEAR_CHANNEL_THRESHOLD
          THEN [display |-> [d.display EXCEPT ![ch] = BlankChannel],
                stream_state |-> ss]
          ELSE [display |-> d.display, stream_state |-> ss]
  ELSE IF ~d.stream_state.data_readout THEN d
  ELSE LET segment_num == (byte_in \div 16) % 16
           segment_data == byte_in % 16
           channel == d.stream_state.channel
       IN IF segment_num >= CHARS_PER_CHANNEL THEN d
          ELSE IF channel > 0 /\ segment_data = 0
          THEN [d EXCEPT !.display[channel][segment_num] = SPACE_ASCII]
          ELSE [d EXCEPT !.display[channel][segment_num] = (15 - segment_data) + 48]

\* the for loop of run() over the bytes of one read
RECURSIVE ProcessBytes(_, _)
ProcessBytes(d, bytes) ==
  IF bytes = <<>> THEN d ELSE ProcessBytes(ProcessByte(d, Head(bytes)), Tail(bytes))

\* _get_char: the character code shown, blank for SPACE_ASCII and '?'
GetChar(disp, channel, offset) ==
  IF channel >= CHANNELS \/ offset >= CHARS_PER_CHANNEL THEN BLANK_CHAR
  ELSE LET ch == disp[channel][offset]
       IN IF ch \in {SPACE_ASCII, 63} THEN BLANK_CHAR ELSE ch

\* _get_event_and_heat: <<event, heat>>
GetEventAndHeat(disp) ==
  <<Strip([i \in 1..3 |-> GetChar(disp, EVENT_HEAT_CHANNEL, i - 1)]),
    Strip([i \in 1..3 |-> GetChar(disp, EVENT_HEAT_CHANNEL, i + 4)])>>

\* _get_race_time: "MM:SS.HH" from cells 2..7, stripped
GetRaceTime(disp) ==
  LET g(i) == GetChar(disp, RACE_TIME_CHANNEL, i)
  IN Strip(<<g(2), g(3), 58, g(4), g(5), 46, g(6), g(7)>>)

\* _get_lane_time: [time, place]; time is <<>> when every digit is 0 or blank
GetLaneTime(disp, lane) ==
  IF lane < 1 \/ lane > 8 THEN [time |-> <<>>, place |-> <<>>]
  ELSE LET channel == 1 + (lane - 1)
           chars(i) == GetChar(disp, channel, i)
           z(i) == IF Strip(<<chars(i)>>) # <<>> THEN chars(i) ELSE 48
           minutes == <<z(2), z(3)>>
           seconds == <<z(4), z(5)>>
           hundredths == <<z(6), z(7)>>
       IN IF seconds = <<48, 48>> /\ hundredths = <<48, 48>> /\ minutes = <<48, 48>>
          THEN [time |-> <<>>, place |-> <<>>]
          ELSE [time |-> minutes \o <<58>> \o seconds \o <<46>> \o hundredths,
                place |-> Strip(<<chars(1)>>)]

\* _is_lane_active: the lane-number cell shows the lane's own digit
IsLaneActive(disp, lane) ==
  IF lane < 1 \/ lane > 8 THEN FALSE
  ELSE <<GetChar(disp, 1 + (lane - 1), 0)>> = LaneStr(lane)

\* ------------------------------------------------------------------------
\* Event/heat file parser and caches
\* ------------------------------------------------------------------------
\* the string "N/A"
NA == <<78, 47, 65>>

\* f"E{event_id}.scb"
EventFileName(event_id) == <<69>> \o event_id \o <<46, 115, 99, 98>>

\* text-mode reading: "\r\n" and "\r" are read as "\n"
UniversalNewlines(b) ==
  LET keep == SelectSeq([i \in 1..Len(b) |-> i],
                        LAMBDA i : ~(b[i] = 13 /\ i < Len(b) /\ b[i + 1] = 10))
  IN [k \in 1..Len(keep) |-> IF b[keep[k]] = 13 THEN 10 ELSE b[keep[k]]]

\* f.readlines(): the lines of the text, without a line after a final "\n"
ReadLines(b) ==
  LET AllButLast(parts) == SubSeq(parts, 1, Len(parts) - 1)
      Lines(t) ==
        IF t = <<>> THEN <<>>
        ELSE IF t[Len(t)] = 10 THEN AllButLast(SplitOn(t, 10))
        ELSE SplitOn(t, 10)
  IN Lines(UniversalNewlines(b))

\* _read_event_file: the right-stripped lines of E<id>.scb, [] when there is
\* no such file
ReadEventFile(fs, event_id) ==
  IF event_id = <<>> \/ event_id = NA THEN <<>>
  ELSE IF EventFileName(event_id) \notin DOMAIN fs THEN <<>>
  ELSE LET Stripped(ls) == [i \in 1..Len(ls) |-> RStrip(ls[i])]
       IN Stripped(ReadLines(fs[EventFileName(event_id)]))

\* the word is <digits>m or <digits>M
IsDistanceWord(w) ==
  LET Matches(word_lower) ==
        Len(word_lower) >= 1 /\ word_lower[Len(word_lower)] = 109
        /\ IsDigitStr(SubSeq(word_lower, 1, Len(word_lower) - 1))
  IN Matches(Lower(w))

\* _extract_distance_from_event_name: the number of the first <digits>M word,
\* None when there is none
ExtractDistanceFromEventName(event_name) ==
  LET Number(w) == DigitsToInt(SubSeq(w, 1, Len(w) - 1))
      First(words) ==
        IF \E i \in 1..Len(words) : IsDistanceWord(words[i])
        THEN Number(words[CHOOSE k \in 1..Len(words) :
                            IsDistanceWord(words[k])
                            /\ \A j \in 1..(k - 1) : ~IsDistanceWord(words[j])])
        ELSE None
  IN First(SplitWords(event_name))

\* sub in s
HasSub(s, sub) ==
  \E i \in 1..(Len(s) - Len(sub) + 1) : SubSeq(s, i, i + Len(sub) - 1) = sub

\* s.startswith(pre)
StartsWith(s, pre) == Len(s) >= Len(pre) /\ SubSeq(s, 1, Len(pre)) = pre

\* s.endswith(suf)
EndsWith(s, suf) == Len(s) >= Len(suf) /\ SubSeq(s, Len(s) - Len(suf) + 1, Len(s)) = suf

\* s.replace(" /", "/")
RECURSIVE ReplaceSpaceSlash(_)
ReplaceSpaceSlash(s) ==
  IF s = <<>> THEN <<>>
  ELSE IF StartsWith(s, <<32, 47>>) THEN <<47>> \o ReplaceSpaceSlash(SubSeq(s, 3, Len(s)))
  ELSE <<Head(s)>> \o ReplaceSpaceSlash(Tail(s))

\* s.replace("/", " / ")
RECURSIVE SpaceOutSlash(_)
SpaceOutSlash(s) ==
  IF s = <<>> THEN <<>>
  ELSE IF Head(s) = 47 THEN <<32, 47, 32>> \o SpaceOutSlash(Tail(s))
  ELSE <<Head(s)>> \o SpaceOutSlash(Tail(s))

\* " ".join(ss)
RECURSIVE JoinSpace(_)
JoinSpace(ss) ==
  IF ss = <<>> THEN <<>>
  ELSE IF Len(ss) = 1 THEN ss[1]
  ELSE Head(ss) \o <<32>> \o JoinSpace(Tail(ss))

\* stroke_map in insertion order: <<key, full name>>
StrokeMap ==
  << <<<<98, 97, 99, 107>>, <<66, 97, 99, 107, 115, 116, 114, 111, 107, 101>>>>,
     <<<<98, 114>>, <<66, 114, 101, 97, 115, 116, 115, 116, 114, 111, 107, 101>>>>,
     <<<<98, 114, 101, 97, 115, 116>>, <<66, 114, 101, 97, 115, 116, 115, 116, 114, 111, 107, 101>>>>,
     <<<<102, 108, 121>>, <<66, 117, 116, 116, 101, 114, 102, 108, 121>>>>,
     <<<<98, 117, 116, 116, 101, 114>>, <<66, 117, 116, 116, 101, 114, 102, 108, 121>>>>,
     <<<<98, 117>>, <<66, 117, 116, 116, 101, 114, 102, 108, 121>>>>,
     <<<<102, 114, 101, 101>>, <<70, 114, 101, 101, 115, 116, 121, 108, 101>>>>,
     <<<<102, 114>>, <<70, 114, 101, 101, 115, 116, 121, 108, 101>>>>,
     <<<<105, 109>>, <<73, 110, 100, 105, 118, 105, 100, 117, 97, 108, 32, 77, 101, 100, 108, 101, 121>>>> >>

\* the stroke of one word: the first key of stroke_map the word starts with
WordStroke(w) ==
  LET Stroke(word_lower) ==
        IF \E k \in 1..Len(StrokeMap) : StartsWith(word_lower, StrokeMap[k][1])
        THEN StrokeMap[CHOOSE k \in 1..Len(StrokeMap) :
                         StartsWith(word_lower, StrokeMap[k][1])
                         /\ \A j \in 1..(k - 1) :
                              ~StartsWith(word_lower, StrokeMap[j][1])][2]
        ELSE <<>>
  IN Stroke(Lower(w))

\* the index of the first element of a list satisfying P, 0 when none does
FirstIndex(ss, P(_)) ==
  IF \E k \in 1..Len(ss) : P(ss[k])
  THEN CHOOSE k \in 1..Len(ss) : P(ss[k]) /\ \A j \in 1..(k - 1) : ~P(ss[j])
  ELSE 0

\* the title parsing of _get_event_name, for the first line of the file
CleanEventName(line) ==
  LET IsGender(w) == HasSub(Lower(w), <<111, 112, 101, 110>>)
                     \/ HasSub(Lower(w), <<102, 101, 109, 97, 108, 101>>)
      GenderSection(words, gi) ==
        IF gi = 0 THEN <<>>
        ELSE IF HasSub(Lower(words[gi]), <<111, 112, 101, 110>>)
        THEN <<79, 112, 101, 110, 47, 77, 97, 108, 101>>
        ELSE <<70, 101, 109, 97, 108, 101>>
      Distance(words, di) == IF di = 0 THEN <<>> ELSE words[di]
      HasStroke(w) == WordStroke(w) # <<>>
      Stroke(words, si) == IF si = 0 THEN <<>> ELSE WordStroke(words[si])
      Sections(words) ==
        <<GenderSection(words, FirstIndex(words, IsGender)),
          Distance(words, FirstIndex(words, IsDistanceWord)),
          Stroke(words, FirstIndex(words, HasStroke))>>
      Result(raw, result) == IF result = <<>> THEN Upper(raw) ELSE result
      Clean(raw) ==
        Result(raw, Upper(Strip(JoinSpace(SelectSeq(Sections(SplitWords(raw)),
                                                    LAMBDA x : x # <<>>)))))
  IN Clean(SpaceOutSlash(ReplaceSpaceSlash(LStripChar(Strip(line), 35))))

\* _get_event_name on the caches c = [event_cache, swimmer_cache]:
\* [name, event_cache]
GetEventName(fs, cache, event_id) ==
  IF event_id = <<>> \/ event_id = NA THEN [name |-> event_id, event_cache |-> cache]
  ELSE IF event_id \in DOMAIN cache THEN [name |-> cache[event_id], event_cache |-> cache]
  ELSE LET Name(lines) == IF lines = <<>> THEN event_id ELSE CleanEventName(lines[1])
           Cached(result) ==
             [name |-> result,
              event_cache |-> [k \in DOMAIN cache \cup {event_id} |->
                                 IF k = event_id THEN result ELSE cache[k]]]
       IN Cached(Name(ReadEventFile(fs, event_id)))

\* a heat loop that counts the lines of the file from 1: heat 1 is read from
\* the first line of the file on
RECURSIVE ParseHeatsFromFirstLine(_, _)
ParseHeatsFromFirstLine(lines, heat_num) ==
  LET start_line == 10 * heat_num - 10
      end_line == start_line + 8
      Entry(line) == IF line = <<45, 45>> THEN <<>> ELSE line
      read == [i \in 1..(Min(end_line, Len(lines)) - start_line) |->
                 Entry(Strip(lines[start_line + i]))]
      Padded(r) == [i \in 1..8 |-> IF i <= Len(r) THEN r[i] ELSE <<>>]
      Heats(heat_swimmers) ==
        IF \E i \in 1..8 : Strip(heat_swimmers[i]) # <<>>
        THEN <<heat_swimmers>> \o ParseHeatsFromFirstLine(lines, heat_num + 1)
        ELSE <<>>
  IN IF start_line >= Len(lines) THEN <<>> ELSE Heats(Padded(read))

\* a heat loop that stops at a block with fewer than 8 lane lines left
RECURSIVE ParseHeatsWholeBlocks(_, _)
ParseHeatsWholeBlocks(lines, heat_num) ==
  LET start_line == 10 * heat_num - 9
      end_line == start_line + 8
      Entry(line) == IF line = <<45, 45>> THEN <<>> ELSE line
      read == [i \in 1..8 |-> Entry(Strip(lines[start_line + i]))]
      Heats(heat_swimmers) ==
        IF \E i \in 1..8 : Strip(heat_swimmers[i]) # <<>>
        THEN <<heat_swimmers>> \o ParseHeatsWholeBlocks(lines, heat_num + 1)
        ELSE <<>>
  IN IF end_line > Len(lines) THEN <<>> ELSE Heats(read)

\* the while loop of _parse_swimmer_data from heat number heat_num on
RECURSIVE ParseHeats(_, _)
ParseHeats(lines, heat_num) ==
  LET start_line == 10 * heat_num - 9
      end_line == start_line + 8
      Entry(line) == IF line = <<45, 45>> THEN <<>> ELSE line
      \* Python indexes lines from 0
      read == [i \in 1..(Min(end_line, Len(lines)) - start_line) |->
                 Entry(Strip(lines[start_line + i]))]
      Padded(r) == [i \in 1..8 |-> IF i <= Len(r) THEN r[i] ELSE <<>>]
      Heats(heat_swimmers) ==
        IF \E i \in 1..8 : Strip(heat_swimmers[i]) # <<>>
        THEN <<heat_swimmers>> \o ParseHeats(lines, heat_num + 1)
        ELSE <<>>
  IN IF start_line >= Len(lines) THEN <<>> ELSE Heats(Padded(read))

\* _parse_swimmer_data: [heats, swimmer_cache]
ParseSwimmerData(fs, cache, event_id) ==
  IF event_id = <<>> \/ event_id = NA THEN [heats |-> <<>>, swimmer_cache |-> cache]
  ELSE IF event_id \in DOMAIN cache THEN [heats |-> cache[event_id], swimmer_cache |-> cache]
  ELSE LET Parsed(lines) == IF Len(lines) < 10 THEN <<>> ELSE ParseHeats(lines, 1)
           Cached(heats) ==
             [heats |-> heats,
              swimmer_cache |-> [k \in DOMAIN cache \cup {event_id} |->
                                   IF k = event_id THEN heats ELSE cache[k]]]
       IN Cached(Parsed(ReadEventFile(fs, event_id)))

\* raw_data.split('--', 1): a split at the first separator only
SplitDashesOnce(s) ==
  LET At(i) == <<SubSeq(s, 1, i - 1), SubSeq(s, i + 2, Len(s))>>
  IN IF ~HasSub(s, <<45, 45>>) THEN <<s>>
     ELSE At(CHOOSE k \in 1..(Len(s) - 1) :
               SubSeq(s, k, k + 1) = <<45, 45>>
               /\ \A j \in 1..(k - 1) : SubSeq(s, j, j + 1) # <<45, 45>>)

\* raw_data.split('--')
RECURSIVE SplitDashes(_)
SplitDashes(s) ==
  LET At(i) == <<SubSeq(s, 1, i - 1)>> \o SplitDashes(SubSeq(s, i + 2, Len(s)))
  IN IF ~HasSub(s, <<45, 45>>) THEN <<s>>
     ELSE At(CHOOSE k \in 1..(Len(s) - 1) :
               SubSeq(s, k, k + 1) = <<45, 45>>
               /\ \A j \in 1..(k - 1) : SubSeq(s, j, j + 1) # <<45, 45>>)

NoSwimmer == [name |-> <<>>, club |-> <<>>]

\* _format_swimmer_data
FormatSwimmerData(raw_data) ==
  LET \* surname, forename = name_part.split(',', 1)
      Named(name_part, i) ==
        Strip(SubSeq(name_part, i + 1, Len(name_part))) \o <<32>>
        \o Strip(SubSeq(name_part, 1, i - 1))
      Swimmer(name_part, club_code) ==
        IF Contains(name_part, 44)
        THEN [name |-> Named(name_part,
                             CHOOSE k \in 1..Len(name_part) :
                               name_part[k] = 44 /\ \A j \in 1..(k - 1) : name_part[j] # 44),
              club |-> club_code]
        ELSE [name |-> name_part, club |-> club_code]
      Formatted(parts) ==
        IF Len(parts) # 2 THEN NoSwimmer ELSE Swimmer(Strip(parts[1]), Strip(parts[2]))
  IN IF raw_data = <<>> \/ raw_data = <<45, 45>> THEN NoSwimmer
     ELSE Formatted(SplitDashes(raw_data))

\* the roster of an empty heat: lane -> no swimmer
DefaultSwimmers == [i \in Lanes |-> NoSwimmer]

\* _get_swimmers_for_heat: [swimmers, swimmer_cache]
GetSwimmersForHeat(fs, cache, event_id, heat_num) ==
  LET OfHeat(p, heat_number) ==
        IF p.heats = <<>> \/ heat_number > Len(p.heats)
        THEN [swimmers |-> DefaultSwimmers, swimmer_cache |-> p.swimmer_cache]
        ELSE [swimmers |-> [i \in Lanes |-> FormatSwimmerData(p.heats[heat_number][i])],
              swimmer_cache |-> p.swimmer_cache]
      Swimmers(heat_number) ==
        IF heat_number = None \/ heat_number < 1
        THEN [swimmers |-> DefaultSwimmers, swimmer_cache |-> cache]
        ELSE OfHeat(ParseSwimmerData(fs, cache, event_id), heat_number)
  IN IF event_id = <<>> \/ heat_num = <<>> \/ heat_num = NA
     THEN [swimmers |-> DefaultSwimmers, swimmer_cache |-> cache]
     ELSE Swimmers(ParseInt(heat_num))

\* ------------------------------------------------------------------------
\* Race timing state machine
\* ------------------------------------------------------------------------
\* The handlers below are functions of a record s of the fields of self they
\* read or write, plus s.out, the messages they put on data_queue, in order.

\* the minimum spacing of two lane-activity samples, 0.3 s in milliseconds
LANE_CHECK_SPACING == 300

\* clock values below this are stale carry-over, 1.0 s in hundredths
STALE_TIME_LIMIT == 100

\* the clock is empty up to this value, 0.09 s in hundredths
EMPTY_CLOCK_LIMIT == 9

\* str(n) for n >= 0
RECURSIVE IntToStr(_)
IntToStr(n) == IF n < 10 THEN <<48 + n>> ELSE IntToStr(n \div 10) \o <<48 + (n % 10)>>

\* sorted(list(S)) for a set of numbers
RECURSIVE SortedList(_)
SortedList(S) ==
  IF S = {} THEN <<>>
  ELSE LET m == CHOOSE x \in S : \A y \in S : x <= y
       IN <<m>> \o SortedList(S \ {m})

\* a parser that counts a single fractional digit as hundredths
ParseSecondsFractionHundredths(sec_parts) ==
  LET Total(seconds, frac) ==
        IF seconds = None \/ frac = None THEN None ELSE seconds * 100 + frac
  IN IF Len(sec_parts) < 2 THEN None
     ELSE Total(ParseInt(sec_parts[1]),
                ParseInt(SubSeq(Strip(sec_parts[2]), 1, Min(2, Len(Strip(sec_parts[2]))))))

\* the seconds and fraction part of _parse_time_to_seconds, in hundredths
ParseSecondsFraction(sec_parts) ==
  LET Total(seconds, frac_str, frac) ==
        IF seconds = None \/ frac = None THEN None
        ELSE IF Len(frac_str) = 1 THEN seconds * 100 + frac * 10
        ELSE seconds * 100 + frac
      Fraction(seconds, frac_str) ==
        Total(seconds, frac_str, ParseInt(SubSeq(frac_str, 1, Min(2, Len(frac_str)))))
  IN IF Len(sec_parts) < 2 THEN None
     ELSE Fraction(ParseInt(sec_parts[1]), Strip(sec_parts[2]))

\* _parse_time_to_seconds in hundredths of a second, None when unparseable
ParseTimeToSeconds(time_str) ==
  LET Total(minutes, rest) ==
        IF minutes = None \/ rest = None THEN None ELSE minutes * 6000 + rest
      Minutes(part) == IF Strip(part) # <<>> THEN ParseInt(part) ELSE 0
      WithMinutes(parts) ==
        Total(Minutes(parts[1]), ParseSecondsFraction(SplitOn(parts[2], 46)))
      Parsed(clean_time) ==
        IF Contains(clean_time, 58) /\ Contains(clean_time, 46)
        THEN WithMinutes(SplitOn(clean_time, 58))
        ELSE IF Contains(clean_time, 46)
        THEN ParseSecondsFraction(SplitOn(clean_time, 46))
        ELSE None
  IN Parsed(Strip(time_str))

\* _send_websocket_data: queue the message while the system is running
SendWebsocketData(s, data) ==
  IF s.running THEN [s EXCEPT !.out = Append(@, data)] ELSE s

\* complete when no active lane lacks a time, also with no active lane
IsRaceDataCompleteVacuous(s) ==
  \A lane \in s.active_lanes : s.lane_time_counts[lane] >= s.expected_times_per_lane

\* complete as soon as one active lane has its times
IsRaceDataCompleteAny(s) ==
  IF s.active_lanes = {} \/ s.expected_times_per_lane = 0 THEN FALSE
  ELSE \E lane \in s.active_lanes : s.lane_time_counts[lane] >= s.expected_times_per_lane

\* _is_race_data_complete
IsRaceDataComplete(s) ==
  IF s.active_lanes = {} \/ s.expected_times_per_lane = 0 THEN FALSE
  ELSE \A lane \in s.active_lanes : s.lane_time_counts[lane] >= s.expected_times_per_lane

\* f"HEAT {heat}" if heat else 'N/A'
DisplayHeat(heat) == IF heat # <<>> THEN <<72, 69, 65, 84, 32>> \o heat ELSE NA

ZeroCounts == [i \in Lanes |-> 0]

\* every lane keeps the mark "DQ" as its last raw time
MarkedFinishTimes == [i \in Lanes |-> <<68, 81>>]

\* last_finish_times = {}: no lane has a last raw time (get() gives "")
NoFinishTimes == [i \in Lanes |-> <<>>]

\* _handle_event_change
HandleEventChange(s, fs, event, heat) ==
  LET \* if distance: distance // 50, else 1
      Expected(distance) ==
        IF distance # None /\ distance # 0 THEN distance \div 50 ELSE 1
      EventChanged(n, sw) ==
        SendWebsocketData(
          [s EXCEPT !.last_event_name = n.name,
                    !.event_cache = n.event_cache,
                    !.swimmer_cache = sw.swimmer_cache,
                    !.last_swimmers = sw.swimmers,
                    !.last_finish_times = NoFinishTimes,
                    !.expected_times_per_lane =
                       Expected(ExtractDistanceFromEventName(n.name)),
                    !.lane_time_counts = ZeroCounts,
                    !.saved_sent_for_heat = FALSE,
                    !.dq_sent_for_heat = {}],
          [kind |-> "EventHeatUpdate", eventName |-> Upper(n.name), eventID |-> event,
           heatName |-> DisplayHeat(heat), lanes |-> sw.swimmers])
      HeatChanged(sw) ==
        SendWebsocketData(
          [s EXCEPT !.swimmer_cache = sw.swimmer_cache,
                    !.last_swimmers = sw.swimmers,
                    !.last_finish_times = NoFinishTimes,
                    !.lane_time_counts = ZeroCounts,
                    !.saved_sent_for_heat = FALSE,
                    !.dq_sent_for_heat = {}],
          [kind |-> "EventHeatUpdate",
           heatName |-> DisplayHeat(heat), lanes |-> sw.swimmers])
      t == IF event # s.last_event
           THEN EventChanged(GetEventName(fs, s.event_cache, event),
                             GetSwimmersForHeat(fs, s.swimmer_cache, event, heat))
           ELSE IF heat # s.last_heat
           THEN HeatChanged(GetSwimmersForHeat(fs, s.swimmer_cache, event, heat))
           ELSE s
  IN [t EXCEPT !.last_event = event, !.last_heat = heat]

\* is_empty of _handle_time_update: no digit of the text is non-zero
ClockIsEmpty(race_time) ==
  LET NoDigit(cleaned) ==
        cleaned = <<>> \/ ~\E i \in 1..Len(cleaned) : IsDigit(cleaned[i]) /\ cleaned[i] # 48
  IN NoDigit(RemoveChar(RemoveChar(RemoveChar(race_time, 32), 58), 46))

\* a time handler that queues the stop message before it looks at the race data
HandleTimeUpdateStopFirst(s, race_time, t) ==
  LET Stopped(s1) ==
        IF ~s1.saved_sent_for_heat /\ IsRaceDataComplete(s1)
        THEN [SendWebsocketData(s1, [kind |-> "Saved"]) EXCEPT !.saved_sent_for_heat = TRUE]
        ELSE s1
      Running(compensated_time) ==
        IF ~s.timer_running
        THEN SendWebsocketData(
               [s EXCEPT !.timer_running = TRUE,
                         !.timer_start_time = t,
                         !.timer_offset = compensated_time],
               [kind |-> "TimerSync", running |-> TRUE, time |-> compensated_time,
                timestamp |-> t, activeLanes |-> SortedList(s.active_lanes),
                totalActive |-> Cardinality(s.active_lanes)])
        ELSE IF t - s.last_sync_time >= TIMER_SYNC_INTERVAL
        THEN [SendWebsocketData(s, [kind |-> "TimerSync", running |-> TRUE,
                                    time |-> compensated_time, timestamp |-> t])
                EXCEPT !.last_sync_time = t]
        ELSE s
      Updated(is_empty, current_seconds) ==
        IF is_empty \/ current_seconds = None \/ current_seconds <= EMPTY_CLOCK_LIMIT
        THEN IF s.timer_running
             THEN Stopped(SendWebsocketData(
                            [s EXCEPT !.timer_running = FALSE],
                            [kind |-> "TimerSync", running |-> FALSE, time |-> 0,
                             timestamp |-> t]))
             ELSE s
        ELSE Running(current_seconds + TIMER_LATENCY_COMPENSATION)
      u == Updated(ClockIsEmpty(race_time), ParseTimeToSeconds(race_time))
  IN [u EXCEPT !.last_race_time = race_time]

\* _handle_time_update at wall-clock time t
HandleTimeUpdate(s, race_time, t) ==
  LET Stopped(s1) ==
        SendWebsocketData(
          IF ~s1.saved_sent_for_heat /\ IsRaceDataComplete(s1)
          THEN [SendWebsocketData(s1, [kind |-> "Saved"]) EXCEPT !.saved_sent_for_heat = TRUE]
          ELSE s1,
          [kind |-> "TimerSync", running |-> FALSE, time |-> 0, timestamp |-> t])
      Running(compensated_time) ==
        IF ~s.timer_running
        THEN SendWebsocketData(
               [s EXCEPT !.timer_running = TRUE,
                         !.timer_start_time = t,
                         !.timer_offset = compensated_time],
               [kind |-> "TimerSync", running |-> TRUE, time |-> compensated_time,
                timestamp |-> t, activeLanes |-> SortedList(s.active_lanes),
                totalActive |-> Cardinality(s.active_lanes)])
        ELSE IF t - s.last_sync_time >= TIMER_SYNC_INTERVAL
        THEN [SendWebsocketData(s, [kind |-> "TimerSync", running |-> TRUE,
                                    time |-> compensated_time, timestamp |-> t])
                EXCEPT !.last_sync_time = t]
        ELSE s
      Updated(is_empty, current_seconds) ==
        IF is_empty \/ current_seconds = None \/ current_seconds <= EMPTY_CLOCK_LIMIT
        THEN IF s.timer_running THEN Stopped([s EXCEPT !.timer_running = FALSE]) ELSE s
        ELSE Running(current_seconds + TIMER_LATENCY_COMPENSATION)
      u == Updated(ClockIsEmpty(race_time), ParseTimeToSeconds(race_time))
  IN [u EXCEPT !.last_race_time = race_time]

\* the string "DQ"
DQMark == <<68, 81>>

\* the swimmer name of a lane in a roster, "" when the roster has no such lane
SwimmerName(swimmers, lane) ==
  IF lane \in DOMAIN swimmers THEN swimmers[lane].name ELSE <<>>

\* the zero-padded "MM:SS.HH" of a cleaned lane time, <<>> when the text does
\* not have the shape digits ":" digits "." digits
FormatLaneTime(time_cleaned) ==
  LET Minutes(part) == IF part # <<>> /\ IsDigitStr(part) THEN part ELSE <<48, 48>>
      OrZeros(part) == IF part # <<>> THEN part ELSE <<48, 48>>
      Padded(minutes, sec_split) ==
        IF Len(sec_split) # 2 THEN <<>>
        ELSE ZFill(Minutes(Strip(minutes)), 2) \o <<58>>
             \o ZFill(OrZeros(Strip(sec_split[1])), 2) \o <<46>>
             \o SubSeq(LJustZero(OrZeros(Strip(sec_split[2])), 2), 1, 2)
      Formatted(parts) ==
        IF Len(parts) # 2 THEN <<>>
        ELSE IF ~Contains(parts[2], 46) THEN <<>>
        ELSE Padded(parts[1], SplitOn(parts[2], 46))
  IN Formatted(SplitOn(time_cleaned, 58))

\* the number of digits of a string, zeros included
MeaningfulDigitsAll(str) ==
  Len(SelectSeq(str, LAMBDA c : IsDigit(c)))

\* the number of non-zero digits of a string
MeaningfulDigits(str) ==
  Len(SelectSeq(str, LAMBDA c : IsDigit(c) /\ c # 48))

\* is_dq: the place is non-empty and not a number
IsDQPlace(place) ==
  LET Flagged(p) == p # <<>> /\ ~IsDigitStr(p)
  IN Flagged(Strip(place))

\* a time is a split up to and including the expected count
IsSplitInclusive(time_number, expected) == time_number <= expected

\* is_split of _handle_finish_times: the count after incrementing is below
\* the expected number of times
IsSplit(time_number, expected) == time_number < expected

\* a time path that accepts no time once the lane has its expected count
HandleLaneTimeCapped(s, lane, lane_time, place) ==
  LET shown_place == IF place # <<>> /\ IsDigitStr(place) THEN place ELSE <<>>
      Sent(time_cleaned, formatted_time, swimmer_name, time_number, is_split) ==
        IF formatted_time = <<>> THEN s
        ELSE IF swimmer_name = <<>> THEN s
        ELSE SendWebsocketData(
               [s EXCEPT !.last_finish_times[lane] = time_cleaned,
                         !.lane_time_counts[lane] = time_number],
               [kind |-> "FinishTime", lane |-> lane, time |-> formatted_time,
                place |-> shown_place, swimmer |-> swimmer_name,
                type |-> IF is_split THEN "SPLIT" ELSE "FINISH",
                timeNumber |-> time_number,
                label |-> IF is_split
                          THEN <<83, 112, 108, 105, 116, 32>> \o IntToStr(time_number)
                          ELSE <<70, 105, 110, 105, 115, 104>>])
      Numbered(time_cleaned, time_number) ==
        Sent(time_cleaned, FormatLaneTime(time_cleaned),
             SwimmerName(s.last_swimmers, lane), time_number,
             IsSplit(time_number, s.expected_times_per_lane))
      Fresh(current_race_time, time_cleaned) ==
        IF s.timer_running /\ current_race_time # None /\ current_race_time # 0
           /\ current_race_time < STALE_TIME_LIMIT THEN s
        ELSE IF time_cleaned = s.last_finish_times[lane] THEN s
        ELSE IF ~Contains(time_cleaned, 58) \/ ~Contains(time_cleaned, 46) THEN s
        ELSE IF MeaningfulDigits(RemoveChar(RemoveChar(time_cleaned, 58), 46)) < 2 THEN s
        ELSE Numbered(time_cleaned, s.lane_time_counts[lane] + 1)
  IN IF lane_time = <<>> THEN s
     ELSE IF s.lane_time_counts[lane] >= s.expected_times_per_lane THEN s
     ELSE Fresh(ParseTimeToSeconds(s.last_race_time), RemoveChar(lane_time, 32))

\* the time path of _handle_finish_times for one lane
HandleLaneTime(s, lane, lane_time, place) ==
  LET shown_place == IF place # <<>> /\ IsDigitStr(place) THEN place ELSE <<>>
      Sent(time_cleaned, formatted_time, swimmer_name, time_number, is_split) ==
        IF formatted_time = <<>> THEN s
        ELSE IF swimmer_name = <<>> THEN s
        ELSE SendWebsocketData(
               [s EXCEPT !.last_finish_times[lane] = time_cleaned,
                         !.lane_time_counts[lane] = time_number],
               [kind |-> "FinishTime", lane |-> lane, time |-> formatted_time,
                place |-> shown_place, swimmer |-> swimmer_name,
                type |-> IF is_split THEN "SPLIT" ELSE "FINISH",
                timeNumber |-> time_number,
                label |-> IF is_split
                          THEN <<83, 112, 108, 105, 116, 32>> \o IntToStr(time_number)
                          ELSE <<70, 105, 110, 105, 115, 104>>])
      Numbered(time_cleaned, time_number) ==
        Sent(time_cleaned, FormatLaneTime(time_cleaned),
             SwimmerName(s.last_swimmers, lane), time_number,
             IsSplit(time_number, s.expected_times_per_lane))
      Fresh(current_race_time, time_cleaned) ==
        IF s.timer_running /\ current_race_time # None /\ current_race_time # 0
           /\ current_race_time < STALE_TIME_LIMIT THEN s
        ELSE IF time_cleaned = s.last_finish_times[lane] THEN s
        ELSE IF ~Contains(time_cleaned, 58) \/ ~Contains(time_cleaned, 46) THEN s
        ELSE IF MeaningfulDigits(RemoveChar(RemoveChar(time_cleaned, 58), 46)) < 2 THEN s
        ELSE Numbered(time_cleaned, s.lane_time_counts[lane] + 1)
  IN IF lane_time = <<>> THEN s
     ELSE Fresh(ParseTimeToSeconds(s.last_race_time), RemoveChar(lane_time, 32))

\* one iteration of the lane loop of _handle_finish_times at wall-clock time t
HandleLane(s, disp, lane, t) ==
  LET marked == [s EXCEPT !.last_finish_times[lane] = DQMark]
      Handled(lt) ==
        IF IsDQPlace(lt.place)
        THEN IF lane \in s.dq_sent_for_heat THEN marked
             ELSE IF s.timer_running /\ s.timer_start_time # None
                     /\ t - s.timer_start_time < DQ_STALE_TIMEOUT THEN marked
             ELSE [SendWebsocketData([s EXCEPT !.dq_sent_for_heat = @ \cup {lane}],
                                     [kind |-> "Disqualification", lane |-> lane])
                     EXCEPT !.last_finish_times[lane] = DQMark]
        ELSE HandleLaneTime(s, lane, lt.time, lt.place)
  IN Handled(GetLaneTime(disp, lane))

\* the lane loop of _handle_finish_times from lane on
RECURSIVE HandleLanesFrom(_, _, _, _)
HandleLanesFrom(s, disp, lane, t) ==
  IF lane > 8 THEN s
  ELSE HandleLanesFrom(HandleLane(s, disp, lane, t), disp, lane + 1, t)

\* a finish handler that evaluates the lanes whether the clock runs or not
HandleFinishTimesAlways(s, disp, t) == HandleLanesFrom(s, disp, 1, t)

\* _handle_finish_times
HandleFinishTimes(s, disp, t) ==
  IF ~s.timer_running THEN s ELSE HandleLanesFrom(s, disp, 1, t)

\* current_active of _check_lane_activity: on at the console and with a swimmer
CurrentActive(s, disp) ==
  {lane \in Lanes : IsLaneActive(disp, lane)
                    /\ Strip(SwimmerName(s.last_swimmers, lane)) # <<>>}

\* a lane check that accepts the set of a sample at once
CheckLaneActivityAtOnce(s, disp, t) ==
  IF t - s.last_lane_check_time < LANE_CHECK_SPACING THEN s
  ELSE LET s1 == [s EXCEPT !.last_lane_check_time = t]
           Checked(current_active) ==
             [(IF current_active # s1.last_active_lanes
               THEN [SendWebsocketData(s1, [kind |-> "ActiveLanesUpdate",
                                            activeLanes |-> SortedList(current_active),
                                            totalActive |-> Cardinality(current_active)])
                       EXCEPT !.last_active_lanes = current_active,
                              !.active_lanes = current_active]
               ELSE s1)
                EXCEPT !.pending_active_lanes = <<current_active>>]
       IN Checked(CurrentActive(s, disp))

\* _check_lane_activity at wall-clock time t
CheckLaneActivity(s, disp, t) ==
  IF t - s.last_lane_check_time < LANE_CHECK_SPACING THEN s
  ELSE LET s1 == [s EXCEPT !.last_lane_check_time = t]
           Checked(current_active) ==
             [(IF s1.pending_active_lanes = <<current_active>>
                  /\ current_active # s1.last_active_lanes
               THEN [SendWebsocketData(s1, [kind |-> "ActiveLanesUpdate",
                                            activeLanes |-> SortedList(current_active),
                                            totalActive |-> Cardinality(current_active)])
                       EXCEPT !.last_active_lanes = current_active,
                              !.active_lanes = current_active]
               ELSE s1)
                EXCEPT !.pending_active_lanes = <<current_active>>]
       IN Checked(CurrentActive(s, disp))

\* a main loop that calls the time handler on every iteration
PollHandlersEveryTick(s, fs, disp, t) ==
  LET EventStep(eh) ==
        IF eh[1] # s.last_event \/ eh[2] # s.last_heat
        THEN HandleEventChange(s, fs, eh[1], eh[2]) ELSE s
      TimeStep(s1, race_time) == HandleTimeUpdate(s1, race_time, t)
  IN CheckLaneActivity(
       HandleFinishTimes(TimeStep(EventStep(GetEventAndHeat(disp)), GetRaceTime(disp)),
                         disp, t),
       disp, t)

\* one iteration of the main loop of run() after the bytes were decoded:
\* the four handlers in order, at wall-clock time t
PollHandlers(s, fs, disp, t) ==
  LET EventStep(eh) ==
        IF eh[1] # s.last_event \/ eh[2] # s.last_heat
        THEN HandleEventChange(s, fs, eh[1], eh[2]) ELSE s
      TimeStep(s1, race_time) ==
        IF race_time # s1.last_race_time THEN HandleTimeUpdate(s1, race_time, t) ELSE s1
  IN CheckLaneActivity(
       HandleFinishTimes(TimeStep(EventStep(GetEventAndHeat(disp)), GetRaceTime(disp)),
                         disp, t),
       disp, t)

\* ------------------------------------------------------------------------
\* The roster directory of the meet
\* ------------------------------------------------------------------------
\* "\n".join(lines) + "\n"
RECURSIVE FileOfLines(_)
FileOfLines(lines) ==
  IF lines = <<>> THEN <<>> ELSE Head(lines) \o <<10>> \o FileOfLines(Tail(lines))

\* E1.scb: "#Open 100m Free", heat 1 with lanes 1-3, heat 2 with lanes 1 and 3
Event1Lines ==
  <<<<35, 79, 112, 101, 110, 32, 49, 48, 48, 109, 32, 70, 114, 101, 101>>,
    <<65, 66, 44, 67, 45, 45, 88>>,
    <<68, 69, 44, 70, 45, 45, 89>>,
    <<71, 72, 44, 73, 45, 45, 90>>,
    <<45, 45>>,
    <<45, 45>>,
    <<45, 45>>,
    <<45, 45>>,
    <<45, 45>>,
    <<>>,
    <<>>,
    <<74, 75, 44, 76, 45, 45, 88>>,
    <<45, 45>>,
    <<77, 78, 44, 79, 45, 45, 90>>,
    <<45, 45>>,
    <<45, 45>>,
    <<45, 45>>,
    <<45, 45>>,
    <<45, 45>>>>

\* E2.scb: "Female 50m Back", one heat with lanes 1-3
Event2Lines ==
  <<<<70, 101, 109, 97, 108, 101, 32, 53, 48, 109, 32, 66, 97, 99, 107>>,
    <<80, 44, 81, 45, 45, 88>>,
    <<82, 44, 83, 45, 45, 89>>,
    <<84, 44, 85, 45, 45, 90>>,
    <<45, 45>>,
    <<45, 45>>,
    <<45, 45>>,
    <<45, 45>>,
    <<45, 45>>,
    <<>>>>

\* E3.scb: "Boys 25m Fly", one heat with lanes 1-3
Event3Lines ==
  <<<<66, 111, 121, 115, 32, 50, 53, 109, 32, 70, 108, 121>>,
    <<86, 44, 87, 45, 45, 88>>,
    <<88, 44, 89, 45, 45, 89>>,
    <<90, 44, 65, 45, 45, 90>>,
    <<45, 45>>,
    <<45, 45>>,
    <<45, 45>>,
    <<45, 45>>,
    <<45, 45>>,
    <<>>>>

\* the roster directory during a meet: three event files
MeetFiles ==
  [n \in {EventFileName(<<49>>), EventFileName(<<50>>), EventFileName(<<51>>)} |->
     IF n = EventFileName(<<49>>) THEN FileOfLines(Event1Lines)
     ELSE IF n = EventFileName(<<50>>) THEN FileOfLines(Event2Lines)
     ELSE FileOfLines(Event3Lines)]

\* ------------------------------------------------------------------------
\* Console input
\* ------------------------------------------------------------------------
\* the control byte that selects a channel with readout enabled
SelectByte(channel) == 128 + 2 * (31 - channel)

\* the control byte that selects a channel and clears it
ClearByte(channel) == 192 + 2 * (31 - channel)

\* the data byte that makes cell offset show character ch (32 = blank)
DataByte(offset, ch) == 16 * offset + (IF ch = 32 THEN 0 ELSE 63 - ch)

\* the bytes that rewrite the 8 cells of a channel to row (characters 1..8)
RowBytes(channel, row) ==
  <<SelectByte(channel)>> \o [i \in 1..8 |-> DataByte(i - 1, row[i])]

\* rows of channel 12: event in cells 0-2, heat in cells 5-7
EventHeatRow(event, heat) == <<48 + event, 32, 32, 32, 32, 48 + heat, 32, 32>>

\* rows of channel 0: the clock in cells 2-7
ClockBlank == <<32, 32, 32, 32, 32, 32, 32, 32>>

\* 0.50
ClockHalfSecond == <<32, 32, 32, 32, 32, 48, 53, 48>>

\* 12.00
ClockTwelve == <<32, 32, 32, 32, 49, 50, 48, 48>>

\* 13.00
ClockThirteen == <<32, 32, 32, 32, 49, 51, 48, 48>>

\* the six time cells of a lane channel
NoTime == <<32, 32, 32, 32, 32, 32>>

\* 0:31.20
TimeA == <<32, 48, 51, 49, 50, 48>>

\* 0:35.00
TimeB == <<32, 48, 51, 53, 48, 48>>

\* 1:02.45
TimeC == <<32, 49, 48, 50, 52, 53>>

\* rows of the channel of a lane: lane number, place, time
LaneOff == <<32, 32, 32, 32, 32, 32, 32, 32>>

LaneRow(lane, place, time) == <<48 + lane, place>> \o time

\* the reads of the console port that rewrite one channel to one of the rows
\* given for it, and the read that returns nothing
ReadsOf(eventRows, clockRows, lane1Rows, lane2Rows) ==
  {<<>>}
  \cup {RowBytes(EVENT_HEAT_CHANNEL, r) : r \in eventRows}
  \cup {RowBytes(RACE_TIME_CHANNEL, r) : r \in clockRows}
  \cup {RowBytes(1, r) : r \in lane1Rows}
  \cup {RowBytes(2, r) : r \in lane2Rows}

\* time.time() when the program starts, and how far a tick lets it advance
StartTime == 1000


\* ------------------------------------------------------------------------
\* Initial state and the main loop
\* ------------------------------------------------------------------------
\* the display clients that may connect
MaxClients == 2

Clients == 1..MaxClients

\* a dict with no key
EmptyDict == <<>>

\* the state after SwimLiveSystem.__init__, over a given roster directory
InitWith(fs) ==
  /\ display = BlankDisplay
  /\ stream_state = [data_readout |-> FALSE, channel |-> 0]
  /\ files = fs
  /\ event_cache = EmptyDict
  /\ swimmer_cache = EmptyDict
  /\ last_event = <<>>
  /\ last_heat = <<>>
  /\ last_event_name = <<>>
  /\ last_race_time = <<>>
  /\ last_swimmers = EmptyDict
  /\ last_finish_times = NoFinishTimes
  /\ lane_time_counts = ZeroCounts
  /\ expected_times_per_lane = 1
  /\ active_lanes = {}
  /\ last_active_lanes = {}
  /\ last_lane_check_time = 0
  /\ pending_active_lanes = <<>>
  /\ saved_sent_for_heat = FALSE
  /\ dq_sent_for_heat = {}
  /\ timer_running = FALSE
  /\ timer_start_time = None
  /\ timer_offset = 0
  /\ last_sync_time = 0
  /\ running = FALSE
  /\ websocket_clients = {}
  /\ data_queue = <<>>
  /\ broadcaster = [pc |-> "idle", message |-> <<>>, todo |-> <<>>, disconnected |-> {}]
  /\ handler_pc = [c \in Clients |-> "idle"]
  /\ connection = [c \in Clients |-> "open"]
  /\ received = [c \in Clients |-> <<>>]
  /\ com_buffers = EmptyDict
  /\ lookup = <<>>
  /\ now = StartTime
  /\ h_saved = 0
  /\ h_dq = ZeroCounts
  /\ h_finish = ZeroCounts
  /\ h_raw = [lane \in Lanes |-> <<>>]
  /\ h_round = [clients |-> {}, log |-> <<>>]
  /\ h_expect = [c \in Clients |-> <<>>]
  /\ h_written = <<>>
  /\ h_packet = <<>>

\* the fields of self the main loop's handlers work on, with nothing queued yet
RaceRec ==
  [running |-> running, out |-> <<>>,
   event_cache |-> event_cache, swimmer_cache |-> swimmer_cache,
   last_event |-> last_event, last_heat |-> last_heat,
   last_event_name |-> last_event_name, last_race_time |-> last_race_time,
   last_swimmers |-> last_swimmers, last_finish_times |-> last_finish_times,
   lane_time_counts |-> lane_time_counts,
   expected_times_per_lane |-> expected_times_per_lane,
   active_lanes |-> active_lanes, last_active_lanes |-> last_active_lanes,
   last_lane_check_time |-> last_lane_check_time,
   pending_active_lanes |-> pending_active_lanes,
   saved_sent_for_heat |-> saved_sent_for_heat, dq_sent_for_heat |-> dq_sent_for_heat,
   timer_running |-> timer_running, timer_start_time |-> timer_start_time,
   timer_offset |-> timer_offset, last_sync_time |-> last_sync_time]

\* the number of messages of a kind in a list
CountKind(msgs, kind) == Len(SelectSeq(msgs, LAMBDA m : m.kind = kind))

\* the number of messages of a kind about a lane in a list
CountKindLane(msgs, kind, lane) ==
  Len(SelectSeq(msgs, LAMBDA m : m.kind = kind /\ m.lane = lane))

\* the state after the handlers returned s: the fields of self, the queue and
\* the history
StoreRace(s) ==
  LET changed == <<s.last_event, s.last_heat>> # <<last_event, last_heat>>
  IN
  /\ event_cache' = s.event_cache
  /\ swimmer_cache' = s.swimmer_cache
  /\ last_event' = s.last_event
  /\ last_heat' = s.last_heat
  /\ last_event_name' = s.last_event_name
  /\ last_race_time' = s.last_race_time
  /\ last_swimmers' = s.last_swimmers
  /\ last_finish_times' = s.last_finish_times
  /\ lane_time_counts' = s.lane_time_counts
  /\ expected_times_per_lane' = s.expected_times_per_lane
  /\ active_lanes' = s.active_lanes
  /\ last_active_lanes' = s.last_active_lanes
  /\ last_lane_check_time' = s.last_lane_check_time
  /\ pending_active_lanes' = s.pending_active_lanes
  /\ saved_sent_for_heat' = s.saved_sent_for_heat
  /\ dq_sent_for_heat' = s.dq_sent_for_heat
  /\ timer_running' = s.timer_running
  /\ timer_start_time' = s.timer_start_time
  /\ timer_offset' = s.timer_offset
  /\ last_sync_time' = s.last_sync_time
  /\ data_queue' = data_queue \o s.out
  /\ h_saved' = (IF changed THEN 0 ELSE h_saved) + CountKind(s.out, "Saved")
  /\ h_dq' = [lane \in Lanes |->
                (IF changed THEN 0 ELSE h_dq[lane]) + CountKindLane(s.out, "Disqualification", lane)]
  /\ h_finish' = [lane \in Lanes |->
                    (IF changed THEN 0 ELSE h_finish[lane])
                    + CountKindLane(s.out, "FinishTime", lane)]
  /\ h_raw' = [lane \in Lanes |->
                 IF CountKindLane(s.out, "FinishTime", lane) > 0
                 THEN s.last_finish_times[lane]
                 ELSE IF changed THEN <<>> ELSE h_raw[lane]]

\* run() up to its main loop: the threads are started and an event already
\* on the display is loaded
StartRun ==
  /\ ~running
  /\ running' = TRUE
  /\ LET eh == GetEventAndHeat(display)
         initial_race_time == GetRaceTime(display)
         s0 == [RaceRec EXCEPT !.running = TRUE]
         s1 == IF eh[1] # <<>> \/ eh[2] # <<>>
               THEN LET c == HandleEventChange(s0, files, eh[1], eh[2])
                    IN IF initial_race_time # <<>>
                       THEN HandleTimeUpdate(c, initial_race_time, now) ELSE c
               ELSE s0
     IN StoreRace(s1)
  /\ UNCHANGED <<lookup, decoderVars, files, hubVars, com_buffers, now, hubHistory, fileHistory>>

\* one iteration of the main loop of run(): a read of the console port that
\* returns bytes after dt milliseconds, the decoding of the bytes, and the
\* four handlers
Tick(dt, bytes) ==
  /\ running
  /\ lookup = <<>>
  /\ Len(data_queue) <= MaxBacklog
  /\ now + dt <= StartTime + MaxElapsed
  /\ LET d == ProcessBytes([display |-> display, stream_state |-> stream_state], bytes)
     IN /\ display' = d.display
        /\ stream_state' = d.stream_state
        /\ StoreRace(PollHandlers(RaceRec, files, d.display, now + dt))
  /\ \A lane \in Lanes : lane_time_counts'[lane] <= MaxCount
  /\ now' = now + dt
  /\ UNCHANGED <<lookup, files, hubVars, running, com_buffers, hubHistory, fileHistory>>

\* the poll reads the roster file of an event: the event or heat it decoded is
\* new, the heat is a number from 1 and the event's heats are not cached
ReadsRosterFile(disp) ==
  LET Reads(eh) ==
        /\ eh[1] # last_event \/ eh[2] # last_heat
        /\ eh[1] # <<>> /\ eh[1] # NA
        /\ eh[2] # <<>> /\ eh[2] # NA
        /\ ParseInt(eh[2]) # None /\ ParseInt(eh[2]) >= 1
        /\ eh[1] \notin DOMAIN swimmer_cache
  IN Reads(GetEventAndHeat(disp))

\* the first part of an iteration of the main loop that looks up the roster
\* of an event: the bytes are decoded, _handle_event_change has looked up the
\* event name and _parse_swimmer_data has read the file but has not yet
\* assigned to swimmer_cache; the file receiver thread may run before it does
TickRead(dt, bytes) ==
  /\ running
  /\ lookup = <<>>
  /\ Len(data_queue) <= MaxBacklog
  /\ now + dt <= StartTime + MaxElapsed
  /\ LET Decoded(d) ==
           /\ ReadsRosterFile(d.display)
           /\ display' = d.display
           /\ stream_state' = d.stream_state
           /\ event_cache' =
                IF GetEventAndHeat(d.display)[1] # last_event
                THEN GetEventName(files, event_cache,
                                  GetEventAndHeat(d.display)[1]).event_cache
                ELSE event_cache
     IN Decoded(ProcessBytes([display |-> display, stream_state |-> stream_state], bytes))
  /\ lookup' = <<files>>
  /\ now' = now + dt
  /\ UNCHANGED <<files, swimmer_cache, raceVars, hubVars, running, data_queue, com_buffers,
                 raceHistory, hubHistory, fileHistory>>

\* the rest of that iteration: the heats of the file as it was read are
\* assigned to swimmer_cache and the handlers go on; the event name is the one
\* looked up before, which the file as it was read gives again
TickStore ==
  /\ running
  /\ lookup # <<>>
  /\ LET Stored(r) == StoreRace([r EXCEPT !.event_cache = event_cache])
     IN Stored(PollHandlers(RaceRec, lookup[1], display, now))
  /\ \A lane \in Lanes : lane_time_counts'[lane] <= MaxCount
  /\ lookup' = <<>>
  /\ UNCHANGED <<decoderVars, files, hubVars, running, com_buffers, now, hubHistory,
                 fileHistory>>

\* an iteration of the main loop of run() whose read of the console port
\* raises after dt milliseconds: the try statement encloses the while loop, so
\* the exception leaves the loop and the finally clause calls close(), which
\* clears running and tries to close the connection of every client
TickReadError(dt) ==
  /\ running
  /\ lookup = <<>>
  /\ now + dt <= StartTime + MaxElapsed
  /\ running' = FALSE
  /\ now' = now + dt
  /\ \E closed \in SUBSET websocket_clients :
       connection' = [c \in Clients |-> IF c \in closed THEN "closed" ELSE connection[c]]
  /\ UNCHANGED <<lookup, decoderVars, fileVars, raceVars, websocket_clients, broadcaster,
                 handler_pc, received, data_queue, com_buffers, raceHistory, hubHistory,
                 fileHistory>>

\* ------------------------------------------------------------------------
\* Broadcast hub
\* ------------------------------------------------------------------------
\* the orders in which list(S) may enumerate a set
RECURSIVE ListsOf(_)
ListsOf(S) ==
  IF S = {} THEN {<<>>}
  ELSE UNION {{<<x>> \o l : l \in ListsOf(S \ {x})} : x \in S}

\* the newest item of the queue
QueueGetNewest(q) == [item |-> q[Len(q)], rest |-> SubSeq(q, 1, Len(q) - 1)]

\* data_queue.get() on a queue that is not empty: the oldest item
QueueGet(q) == [item |-> Head(q), rest |-> Tail(q)]

\* _websocket_broadcaster, from the emptiness test to the first send: take
\* an item off the queue; with no client the message is dropped
BroadcasterGet ==
  /\ running
  /\ broadcaster.pc = "idle"
  /\ data_queue # <<>>
  /\ data_queue' = QueueGet(data_queue).rest
  /\ h_round' = [clients |-> websocket_clients, log |-> <<>>]
  /\ h_expect' = [c \in Clients |->
                    IF c \in websocket_clients
                    THEN Append(h_expect[c], QueueGet(data_queue).item) ELSE h_expect[c]]
  /\ IF websocket_clients # {}
     THEN \E todo \in ListsOf(websocket_clients) :
            broadcaster' = [pc |-> "sending", message |-> <<QueueGet(data_queue).item>>,
                            todo |-> todo, disconnected |-> {}]
     ELSE broadcaster' = broadcaster
  /\ UNCHANGED <<lookup, decoderVars, fileVars, raceVars, websocket_clients, handler_pc,
                 connection, received, running, com_buffers, now, raceHistory,
                 fileHistory>>

\* the clients still to send to once a send fails: none
TodoAfterAbort(todo, ok) == IF ok THEN Tail(todo) ELSE <<>>

\* the for loop after a send: whether the send raised or not, it goes on with
\* the next client
TodoAfter(todo, ok) == Tail(todo)

\* websocket_clients -= disconnected_clients
RemoveDisconnected(clients, disconnected) == clients \ disconnected

\* _websocket_broadcaster, one await client.send(message) of the for loop:
\* the send raises when the connection is closed; after the last client the
\* disconnected clients are removed and the broadcaster sleeps
BroadcasterSend ==
  /\ running
  /\ broadcaster.pc = "sending"
  /\ LET client == Head(broadcaster.todo)
         ok == connection[client] = "open"
         todo == TodoAfter(broadcaster.todo, ok)
         disconnected == IF ok THEN broadcaster.disconnected
                         ELSE broadcaster.disconnected \cup {client}
     IN /\ received' = IF ok THEN [received EXCEPT ![client] = Append(@, broadcaster.message[1])]
                       ELSE received
        /\ h_round' = [h_round EXCEPT !.log = Append(@, <<client, ok>>)]
        /\ IF todo # <<>>
           THEN /\ broadcaster' = [broadcaster EXCEPT !.todo = todo,
                                                      !.disconnected = disconnected]
                /\ UNCHANGED websocket_clients
           ELSE /\ broadcaster' = [pc |-> "idle", message |-> <<>>, todo |-> <<>>,
                                   disconnected |-> {}]
                /\ websocket_clients' = RemoveDisconnected(websocket_clients, disconnected)
  /\ UNCHANGED <<lookup, decoderVars, fileVars, raceVars, handler_pc, connection, running,
                 data_queue, com_buffers, now, raceHistory, h_expect, fileHistory>>

\* initial_data of _websocket_handler
InitialData ==
  LET race_seconds == ParseTimeToSeconds(last_race_time)
  IN [kind |-> "Snapshot",
      eventName |-> Upper(IF last_event_name # <<>> THEN last_event_name ELSE NA),
      eventID |-> IF last_event # <<>> THEN last_event ELSE NA,
      heatName |-> DisplayHeat(last_heat),
      lanes |-> IF last_swimmers # EmptyDict THEN last_swimmers ELSE DefaultSwimmers,
      timerSync |-> [running |-> timer_running,
                     time |-> IF race_seconds = None THEN 0 ELSE race_seconds,
                     timestamp |-> now],
      activeLanes |-> SortedList(active_lanes),
      totalActive |-> Cardinality(active_lanes)]

\* a handler that registers the client and sends it nothing
HandlerStartSilent(c) ==
  /\ running
  /\ handler_pc[c] = "idle"
  /\ websocket_clients' = websocket_clients \cup {c}
  /\ handler_pc' = [handler_pc EXCEPT ![c] = "waiting"]
  /\ UNCHANGED <<lookup, decoderVars, fileVars, raceVars, broadcaster, connection, received,
                 running, data_queue, com_buffers, now, raceHistory, hubHistory, fileHistory>>

\* _websocket_handler up to wait_closed, for a connection the server accepted:
\* the client is registered and sent the snapshot before the handler first
\* yields; when the peer is gone already the send raises ConnectionClosed and
\* the finally clause unregisters the client
HandlerStart(c) ==
  /\ running
  /\ handler_pc[c] = "idle"
  /\ IF connection[c] = "open"
     THEN /\ websocket_clients' = websocket_clients \cup {c}
          /\ received' = [received EXCEPT ![c] = Append(@, InitialData)]
          /\ handler_pc' = [handler_pc EXCEPT ![c] = "waiting"]
     ELSE /\ websocket_clients' = (websocket_clients \cup {c}) \ {c}
          /\ received' = received
          /\ handler_pc' = [handler_pc EXCEPT ![c] = "done"]
  /\ UNCHANGED <<lookup, decoderVars, fileVars, raceVars, broadcaster, connection,
                 running, data_queue, com_buffers, now, raceHistory, hubHistory, fileHistory>>

\* _websocket_handler from wait_closed on: the connection is closed and the
\* finally clause unregisters the client
HandlerClosed(c) ==
  /\ handler_pc[c] = "waiting"
  /\ connection[c] = "closed"
  /\ websocket_clients' = websocket_clients \ {c}
  /\ handler_pc' = [handler_pc EXCEPT ![c] = "done"]
  /\ UNCHANGED <<lookup, decoderVars, fileVars, raceVars, broadcaster, connection, received,
                 running, data_queue, com_buffers, now, raceHistory, hubHistory, fileHistory>>

\* the peer of a connection closes it
ClientClose(c) ==
  /\ running
  /\ connection[c] = "open"
  /\ connection' = [connection EXCEPT ![c] = "closed"]
  /\ UNCHANGED <<lookup, decoderVars, fileVars, raceVars, websocket_clients, broadcaster,
                 handler_pc, received, running, data_queue, com_buffers, now,
                 raceHistory, hubHistory, fileHistory>>

\* ------------------------------------------------------------------------
\* File transfer reassembler
\* ------------------------------------------------------------------------
\* A dict is a list of <<key, value>> pairs in insertion order, as Python
\* keeps it; assigning to a key it holds keeps the key's position.
DictKeys(d) == [i \in 1..Len(d) |-> d[i][1]]

DictHas(d, k) == \E i \in 1..Len(d) : d[i][1] = k

DictGet(d, k) == d[CHOOSE i \in 1..Len(d) : d[i][1] = k][2]

DictSet(d, k, v) ==
  IF DictHas(d, k) THEN [i \in 1..Len(d) |-> IF d[i][1] = k THEN <<k, v>> ELSE d[i]]
  ELSE Append(d, <<k, v>>)

\* a del that empties the dict
DictDelAll(d, k) == <<>>

DictDel(d, k) == SelectSeq(d, LAMBDA e : e[1] # k)

\* the value of a character in the base64 alphabet, 64 for any other character
B64Val(c) ==
  IF c \in 65..90 THEN c - 65
  ELSE IF c \in 97..122 THEN c - 71
  ELSE IF c \in 48..57 THEN c + 4
  ELSE IF c = 43 THEN 62
  ELSE IF c = 47 THEN 63
  ELSE 64

\* the decoding loop of base64.b64decode (binascii.a2b_base64, not strict)
\* from character i on: characters outside the alphabet are skipped, a
\* complete pad sequence ends the data, and data that stops inside a quad is
\* an error
RECURSIVE B64Scan(_, _, _, _, _, _)
B64Scan(text, i, quad_pos, leftchar, pads, acc) ==
  IF i > Len(text)
  THEN [ok |-> quad_pos = 0, bytes |-> acc]
  ELSE IF text[i] = 61
  THEN IF quad_pos >= 2 /\ quad_pos + pads + 1 >= 4
       THEN [ok |-> TRUE, bytes |-> acc]
       ELSE B64Scan(text, i + 1, quad_pos, leftchar,
                    IF quad_pos >= 2 THEN pads + 1 ELSE pads, acc)
  ELSE IF B64Val(text[i]) = 64
  THEN B64Scan(text, i + 1, quad_pos, leftchar, pads, acc)
  ELSE LET v == B64Val(text[i]) IN
       IF quad_pos = 0 THEN B64Scan(text, i + 1, 1, v, 0, acc)
       ELSE IF quad_pos = 1
       THEN B64Scan(text, i + 1, 2, v % 16, 0, Append(acc, leftchar * 4 + v \div 16))
       ELSE IF quad_pos = 2
       THEN B64Scan(text, i + 1, 3, v % 4, 0, Append(acc, leftchar * 16 + v \div 4))
       ELSE B64Scan(text, i + 1, 0, 0, 0, Append(acc, leftchar * 64 + v))

\* a decoder that never raises: it returns the bytes decoded so far
B64DecodeLenient(content) ==
  [ok |-> TRUE, bytes |-> B64Scan(content, 1, 0, 0, 0, <<>>).bytes]

\* base64.b64decode(content): [ok, bytes]; not ok when it raises
B64Decode(content) == B64Scan(content, 1, 0, 0, 0, <<>>)

\* name.startswith("E") and name.endswith(".scb")
IsEventFileName(name) == StartsWith(name, <<69>>) /\ EndsWith(name, <<46, 115, 99, 98>>)

\* a pop that drops every entry of the cache
CachePopAll(cache, key) == <<>>

\* dict.pop(key, None) on a cache
CachePop(cache, key) == [k \in DOMAIN cache \ {key} |-> cache[k]]

\* the keys of the parts in the order the parts arrived
PartIndexesArrival(parts) == DictKeys(parts)

\* indexes of _save_complete_file: sorted(buf["parts"].keys())
PartIndexes(parts) == SortedList({DictKeys(parts)[i] : i \in 1..Len(parts)})

\* _save_complete_file on r = [com_buffers, files, event_cache, swimmer_cache,
\* written]: the parts in ascending order of their keys are written to the
\* file, the caches of an event file are dropped, the buffer is deleted
SaveCompleteFile(r, name, buf) ==
  LET indexes == PartIndexes(buf.parts)
      data == Concat([i \in 1..Len(indexes) |-> DictGet(buf.parts, indexes[i])])
      event_id == SubSeq(name, 2, Len(name) - 4)
      is_event == IsEventFileName(name)
  IN [com_buffers |-> DictDel(r.com_buffers, name),
      files |-> [n \in DOMAIN r.files \cup {name} |-> IF n = name THEN data ELSE r.files[n]],
      event_cache |-> IF is_event THEN CachePop(r.event_cache, event_id) ELSE r.event_cache,
      swimmer_cache |-> IF is_event THEN CachePop(r.swimmer_cache, event_id)
                        ELSE r.swimmer_cache,
      written |-> <<[name |-> name, data |-> data, indexes |-> indexes,
                     arrival |-> DictKeys(buf.parts)]>>]

\* _process_com_packet for a line that json.loads parsed to header_json =
\* [name, seq, final, size, content] (absent keys hold their get() defaults)
ProcessHeader(r, header_json) ==
  LET name == header_json.name
      with_buf == IF DictHas(r.com_buffers, name) THEN r.com_buffers
                  ELSE DictSet(r.com_buffers, name,
                               [parts |-> <<>>, final |-> FALSE, size |-> header_json.size])
      buf == DictGet(with_buf, name)
      raw == B64Decode(header_json.content)
      buf2 == IF ~header_json.final /\ header_json.content # <<>>
              THEN [buf EXCEPT !.parts = DictSet(@, header_json.seq, raw.bytes)]
              ELSE IF header_json.final THEN [buf EXCEPT !.final = TRUE]
              ELSE buf
      r2 == [r EXCEPT !.com_buffers = DictSet(with_buf, name, buf2), !.written = <<>>]
  IN IF name = <<>> THEN [r EXCEPT !.written = <<>>]
     ELSE IF ~header_json.final /\ header_json.content # <<>> /\ ~raw.ok
     THEN [r EXCEPT !.com_buffers = with_buf, !.written = <<>>]
     ELSE IF buf2.final /\ buf2.parts # <<>> THEN SaveCompleteFile(r2, name, buf2)
     ELSE r2

\* a line of the transfer stream: text that is not JSON, or a JSON object
MalformedLine == [json |-> FALSE]

ChunkLine(name, seq, content) ==
  [json |-> TRUE, name |-> name, seq |-> seq, final |-> FALSE,
   size |-> Len(B64Decode(content).bytes), content |-> content]

FinalLine(name) ==
  [json |-> TRUE, name |-> name, seq |-> None, final |-> TRUE, size |-> 0, content |-> <<>>]

\* a receiver that announces the roster again when it has written the file of
\* the event on display
ProcessComPacketAnnounce(line) ==
  /\ running
  /\ LET r0 == [com_buffers |-> com_buffers, files |-> files, event_cache |-> event_cache,
                swimmer_cache |-> swimmer_cache, written |-> <<>>]
         r == IF line.json THEN ProcessHeader(r0, line) ELSE r0
     IN /\ com_buffers' = r.com_buffers
        /\ files' = r.files
        /\ event_cache' = r.event_cache
        /\ swimmer_cache' = r.swimmer_cache
        /\ h_written' = r.written
        /\ data_queue' =
             IF r.written # <<>> /\ r.written[1].name = EventFileName(last_event)
             THEN Append(data_queue, [kind |-> "EventHeatUpdate",
                                      heatName |-> DisplayHeat(last_heat),
                                      lanes |-> last_swimmers])
             ELSE data_queue
  /\ h_packet' = <<line>>
  /\ UNCHANGED <<lookup, decoderVars, raceVars, hubVars, running, now, raceHistory,
                 hubHistory>>

\* _process_com_packet: one stripped, non-empty line of the transfer stream
ProcessComPacket(line) ==
  /\ running
  /\ LET r0 == [com_buffers |-> com_buffers, files |-> files, event_cache |-> event_cache,
                swimmer_cache |-> swimmer_cache, written |-> <<>>]
         r == IF line.json THEN ProcessHeader(r0, line) ELSE r0
     IN /\ com_buffers' = r.com_buffers
        /\ files' = r.files
        /\ event_cache' = r.event_cache
        /\ swimmer_cache' = r.swimmer_cache
        /\ h_written' = r.written
  /\ h_packet' = <<line>>
  /\ UNCHANGED <<lookup, decoderVars, raceVars, hubVars, running, data_queue, now, raceHistory,
                 hubHistory>>

\* an iteration of the while loop of _run_com_receiver whose read raises: the
\* try statement is inside the loop, the error is printed and the loop goes on
ReceiverReadError ==
  /\ running
  /\ UNCHANGED vars

\* the main loop with no display client connected, over given console reads
\* and time steps
RaceNext(steps, reads) ==
  \/ StartRun
  \/ \E dt \in steps, bytes \in reads : Tick(dt, bytes)
  \/ BroadcasterGet

InitRace == InitWith(MeetFiles)

\* a 100 m event with two heats: lanes are switched on, the clock starts and
\* stops, lane 1 shows two different times and lane 2 one
ReadsSaved ==
  ReadsOf({EventHeatRow(1, 1), EventHeatRow(1, 2)},
          {ClockBlank, ClockTwelve},
          {LaneRow(1, 32, NoTime), LaneRow(1, 49, TimeA), LaneRow(1, 32, TimeB)},
          {LaneOff, LaneRow(2, 50, TimeC)})

NextSaved == RaceNext({0, 5000}, ReadsSaved)

SpecSaved == InitRace /\ [][NextSaved]_vars

\* the messages a step appends to data_queue (none when the step takes one off)
Queued ==
  IF Len(data_queue') > Len(data_queue)
  THEN SubSeq(data_queue', Len(data_queue) + 1, Len(data_queue'))
  ELSE <<>>

\* C1: a step queues Saved only when it stops a running clock, only when every
\* lane of the accepted active set has at least expected_times_per_lane times,
\* and it is then the only Saved since the last event or heat change
C1_SavedOncePerHeat ==
  [][CountKind(Queued, "Saved") > 0 =>
       /\ timer_running /\ ~timer_running'
       /\ \A lane \in active_lanes : lane_time_counts'[lane] >= expected_times_per_lane'
       /\ CountKind(Queued, "Saved") = 1
       /\ h_saved = 0
       /\ h_saved' = 1]_vars

\* Saved was queued in a heat whose accepted active lane had its two times,
\* and the clock has been started again in the same heat afterwards
C1_Witness ==
  /\ h_saved = 1
  /\ saved_sent_for_heat
  /\ active_lanes = {1}
  /\ lane_time_counts[1] = 2
  /\ expected_times_per_lane = 2
  /\ timer_running

\* the place cell of a lane's channel shows a character that is not a digit
PlaceFlagged(disp, lane) == IsDQPlace(<<GetChar(disp, lane, 1)>>)

\* a 100 m event with two heats: the clock starts and stops, lane 1 shows a
\* time with the place ":", the place ":" alone, and a time with the place 1
ReadsDQ ==
  ReadsOf({EventHeatRow(1, 1), EventHeatRow(1, 2)},
          {ClockBlank, ClockTwelve},
          {LaneRow(1, 58, TimeA), LaneRow(1, 58, NoTime), LaneRow(1, 49, TimeB)},
          {})

NextDQ == RaceNext({0, 5000}, ReadsDQ)

SpecDQ == InitRace /\ [][NextDQ]_vars

\* C2: while the clock runs, a lane whose place cell is flagged gets no
\* message on a poll less than DQ_STALE_TIMEOUT after the clock start, and on
\* a poll after that it has exactly one Disqualification in the heat
C2_FlagYieldsOneDQ ==
  [][\A lane \in Lanes :
       (running' /\ timer_running' /\ PlaceFlagged(display', lane)) =>
         IF now' - timer_start_time' < DQ_STALE_TIMEOUT
         THEN /\ CountKindLane(Queued, "Disqualification", lane) = 0
              /\ CountKindLane(Queued, "FinishTime", lane) = 0
         ELSE h_dq'[lane] = 1]_vars

\* C3: after a Disqualification for a lane, a step that does not change the
\* event or heat queues no FinishTime for the lane and leaves its count
C3_NoTimeAfterDQ ==
  [][\A lane \in Lanes :
       (h_dq[lane] >= 1 /\ <<last_event', last_heat'>> = <<last_event, last_heat>>) =>
         /\ CountKindLane(Queued, "FinishTime", lane) = 0
         /\ lane_time_counts'[lane] = lane_time_counts[lane]]_vars

\* the events of three distances and an event with no file
ReadsEvents ==
  ReadsOf({EventHeatRow(1, 1), EventHeatRow(2, 1), EventHeatRow(3, 1), EventHeatRow(4, 1)},
          {ClockBlank, ClockTwelve},
          {LaneRow(1, 49, TimeA)},
          {})

NextEvents == RaceNext({0, 5000}, ReadsEvents)

SpecEvents == InitRace /\ [][NextEvents]_vars

\* C4: expected_times_per_lane is max(distance // 50, 1) for the distance of
\* the event name, 1 when the name has none, so it is at least 1
C4_ExpectedAtLeastOne ==
  LET distance == ExtractDistanceFromEventName(last_event_name)
  IN /\ expected_times_per_lane >= 1
     /\ expected_times_per_lane = IF distance = None THEN 1 ELSE Max(distance \div 50, 1)

\* a 100 m and a 50 m event: lane 1 shows two times in turn
ReadsTimes ==
  ReadsOf({EventHeatRow(1, 1), EventHeatRow(2, 1)},
          {ClockBlank, ClockTwelve},
          {LaneRow(1, 49, TimeA), LaneRow(1, 50, TimeB)},
          {})

NextTimes == RaceNext({0, 5000}, ReadsTimes)

SpecTimes == InitRace /\ [][NextTimes]_vars

\* C5: a FinishTime carries the lane's count after incrementing, which is
\* the number of times accepted for the lane in the heat, and is a SPLIT when
\* that count is below expected_times_per_lane and a FINISH otherwise: with
\* 2 expected the 1st is a SPLIT and the 2nd a FINISH, with 1 the 1st a FINISH
C5_SplitOrFinish ==
  [][\A i \in 1..Len(Queued) :
       Queued[i].kind = "FinishTime" =>
         LET m == Queued[i] IN
         /\ m.timeNumber = lane_time_counts'[m.lane]
         /\ m.timeNumber = h_finish'[m.lane]
         /\ m.type \in {"SPLIT", "FINISH"}
         /\ m.type = "SPLIT" <=> m.timeNumber < expected_times_per_lane'
         /\ (expected_times_per_lane' = 2 /\ m.timeNumber = 1) => m.type = "SPLIT"
         /\ (expected_times_per_lane' = 2 /\ m.timeNumber = 2) => m.type = "FINISH"
         /\ (expected_times_per_lane' = 1 /\ m.timeNumber = 1) => m.type = "FINISH"]_vars

\* the second time of lane 1 in a 100 m heat is queued as a FINISH
C5_Witness ==
  /\ expected_times_per_lane = 2
  /\ h_finish[1] = 2
  /\ \E i \in 1..Len(data_queue) :
       /\ data_queue[i].kind = "FinishTime"
       /\ data_queue[i].lane = 1
       /\ data_queue[i].timeNumber = 2
       /\ data_queue[i].type = "FINISH"

\* the display clients and the main loop: an event with a running clock is
\* put on the display in one read, and the clock is blanked
MaxDeltas == 3

ReadsHub ==
  {RowBytes(EVENT_HEAT_CHANNEL, EventHeatRow(2, 1)) \o RowBytes(RACE_TIME_CHANNEL, ClockTwelve),
   RowBytes(RACE_TIME_CHANNEL, ClockBlank)}

NextHub ==
  \/ StartRun
  \/ \E bytes \in ReadsHub :
       /\ \A c \in Clients : Len(h_expect[c]) < MaxDeltas
       /\ Tick(0, bytes)
  \/ BroadcasterGet
  \/ BroadcasterSend
  \/ \E c \in Clients : HandlerStart(c)
  \/ \E c \in Clients : HandlerClosed(c)
  \/ \E c \in Clients : ClientClose(c)

SpecHub == InitRace /\ [][NextHub]_vars

\* the clients of the sends of a broadcast that succeeded, or that failed
RoundClients(round, ok) == {round.log[i][1] : i \in {j \in 1..Len(round.log) : round.log[j][2] = ok}}

\* C6: when the broadcast of a message ends, a send was made to every client
\* that was registered when it began, whichever sends failed; the clients
\* whose send succeeded have the message, and the clients whose send failed,
\* and no others, are removed from websocket_clients
C6_FailedSendIsolated ==
  [][(broadcaster.pc = "sending" /\ broadcaster'.pc = "idle") =>
       LET sent == RoundClients(h_round', TRUE)
           failed == RoundClients(h_round', FALSE)
       IN /\ sent \cup failed = h_round'.clients
          /\ sent \cap failed = {}
          /\ Len(h_round'.log) = Cardinality(h_round'.clients)
          /\ \A c \in sent : received'[c][Len(received'[c])] = broadcaster.message[1]
          /\ \A c \in failed : connection[c] = "closed"
          /\ websocket_clients' = websocket_clients \ failed]_vars

\* a broadcast has ended in which the send to client 1 failed and the send to
\* client 2, made after it, succeeded; client 2 alone is still registered
C6_Witness ==
  /\ broadcaster.pc = "idle"
  /\ h_round.log = <<<<1, FALSE>>, <<2, TRUE>>>>
  /\ websocket_clients = {2}
  /\ Len(received[2]) >= 2

\* C7: a client whose handler has started on an open connection has been
\* sent the snapshot by that very step; whatever a client has been sent
\* begins with the snapshot and holds no second one
C7_SnapshotFirst ==
  \A c \in Clients :
    /\ (handler_pc[c] = "waiting" \/ c \in websocket_clients) => received[c] # <<>>
    /\ received[c] # <<>> =>
         /\ received[c][1].kind = "Snapshot"
         /\ CountKind(received[c], "Snapshot") = 1

\* client 2 connected while a message was being broadcast to client 1 and
\* has its snapshot and nothing else; client 1 has its snapshot and a delta
C7_Witness ==
  /\ broadcaster.pc = "sending"
  /\ handler_pc[2] = "waiting"
  /\ Len(received[2]) = 1
  /\ received[2][1].kind = "Snapshot"
  /\ Len(received[1]) >= 2
  /\ received[1][1].kind = "Snapshot"
  /\ received[1][2].kind # "Snapshot"

\* p is a prefix of q
IsPrefix(p, q) == Len(p) <= Len(q) /\ SubSeq(q, 1, Len(p)) = p

\* what each client has been sent after its snapshot is what was dequeued
\* while it was registered, in that order, each message once: all of it for
\* an open connection (but the message being broadcast, while its send is
\* still to come), a prefix of it for a closed one
DeliveredInOrder ==
  \A c \in Clients :
    LET deltas == IF received[c] = <<>> THEN <<>> ELSE Tail(received[c])
        pending == /\ broadcaster.pc = "sending"
                   /\ \E i \in 1..Len(broadcaster.todo) : broadcaster.todo[i] = c
    IN IF connection[c] = "open"
       THEN deltas = IF pending THEN SubSeq(h_expect[c], 1, Len(h_expect[c]) - 1)
                     ELSE h_expect[c]
       ELSE IsPrefix(deltas, h_expect[c])

\* C8: a step that shortens data_queue takes its oldest message, which is the
\* message then broadcast; any other step keeps what is queued and appends at
\* the end; and the clients are sent what was dequeued while they were
\* registered, in order, each message once
C8_QueueFifoExactlyOnce ==
  [][/\ IF Len(data_queue') < Len(data_queue)
        THEN /\ data_queue' = Tail(data_queue)
             /\ websocket_clients # {} => broadcaster'.message = <<Head(data_queue)>>
             /\ \A c \in websocket_clients :
                  h_expect'[c] = Append(h_expect[c], Head(data_queue))
        ELSE IsPrefix(data_queue, data_queue')
     /\ DeliveredInOrder']_vars

\* client 1 has been sent, after its snapshot, the two messages that one
\* tick queued, in the order they were queued, while a later message waits
C8_Witness ==
  /\ Len(received[1]) = 3
  /\ received[1][2].kind = "EventHeatUpdate"
  /\ received[1][3].kind = "TimerSync"
  /\ received[1][3].running
  /\ data_queue # <<>>
  /\ data_queue[1].kind = "TimerSync"
  /\ ~data_queue[1].running

\* the character of a value of the base64 alphabet
B64Char(v) ==
  IF v < 26 THEN 65 + v
  ELSE IF v < 52 THEN 71 + v
  ELSE IF v < 62 THEN v - 4
  ELSE IF v = 62 THEN 43
  ELSE 47

\* the sender's chunks: chunk seq of a file is the one byte "0" + seq, sent
\* as base64
MaxChunks == 3

ChunkByte(seq) == 48 + seq

ChunkContent(seq) ==
  <<B64Char(ChunkByte(seq) \div 4), B64Char((ChunkByte(seq) % 4) * 16), 61, 61>>

\* the names of the files sent: "E1.scb" in MaxChunks chunks and "R" in one
TransferNames == {EventFileName(<<49>>), <<82>>}

\* content that is not base64: one character of a quad, "M"
BadContent == <<B64Char(12)>>

\* a chunk of "E1.scb" whose content does not decode
BadChunkLine == ChunkLine(EventFileName(<<49>>), 2, BadContent)

TransferLines ==
  {MalformedLine, BadChunkLine}
  \cup {ChunkLine(EventFileName(<<49>>), seq, ChunkContent(seq)) : seq \in 1..MaxChunks}
  \cup {ChunkLine(<<82>>, 1, ChunkContent(1))}
  \cup {FinalLine(name) : name \in TransferNames}

NextTransfer ==
  \/ StartRun
  \/ \E line \in TransferLines : ProcessComPacket(line)

SpecTransfer == InitRace /\ [][NextTransfer]_vars

\* the sequence numbers buffered for a name
BufferedSeqs(buffers, name) ==
  IF DictHas(buffers, name)
  THEN {DictKeys(DictGet(buffers, name).parts)[i] : i \in 1..Len(DictGet(buffers, name).parts)}
  ELSE {}

\* C9: a final marker processed for a name with buffered chunks writes a file
\* that holds each buffered chunk once, in ascending order of the sequence
\* numbers, whatever the order the chunks arrived in, and removes the buffer
C9_AscendingConcatenation ==
  [][\A name \in TransferNames :
       (h_packet' = <<FinalLine(name)>> /\ BufferedSeqs(com_buffers, name) # {}) =>
         /\ h_written' # <<>>
         /\ h_written'[1].name = name
         /\ files'[name] = h_written'[1].data
         /\ Len(files'[name]) = Cardinality(BufferedSeqs(com_buffers, name))
         /\ {files'[name][i] : i \in 1..Len(files'[name])}
              = {ChunkByte(seq) : seq \in BufferedSeqs(com_buffers, name)}
         /\ \A i, j \in 1..Len(files'[name]) : i < j => files'[name][i] < files'[name][j]
         /\ ~DictHas(com_buffers', name)]_vars

\* the chunks of E1.scb arrived in the order 3, 1, 2 and its final marker
\* wrote them as "123"; the buffer is gone
C9_Witness ==
  /\ h_packet = <<FinalLine(EventFileName(<<49>>))>>
  /\ h_written # <<>>
  /\ h_written[1].arrival = <<3, 1, 2>>
  /\ files[EventFileName(<<49>>)] = <<49, 50, 51>>
  /\ ~DictHas(com_buffers, EventFileName(<<49>>))

\* C10: a file that is written holds every sequence number between its
\* lowest and its highest
C10_NoGaps ==
  h_written # <<>> =>
    LET indexes == h_written[1].indexes
    IN \A seq \in indexes[1]..indexes[Len(indexes)] :
         \E i \in 1..Len(indexes) : indexes[i] = seq

\* the buffer held for a name: <<>> when there is none, else <<buffer>>
BufferOf(buffers, name) ==
  IF DictHas(buffers, name) THEN <<DictGet(buffers, name)>> ELSE <<>>

\* C11: a record that names file a leaves the buffer of every other file b as
\* it was: its existence, its chunks and its final flag
C11_OtherBufferUnchanged ==
  [][\A a \in TransferNames : \A b \in TransferNames \ {a} :
       (h_packet' # <<>> /\ h_packet'[1].json /\ h_packet'[1].name = a) =>
         BufferOf(com_buffers', b) = BufferOf(com_buffers, b)]_vars

\* the final marker of "E1.scb" wrote the file and removed its buffer while
\* "R" keeps its buffer with the chunk received before
C11_Witness ==
  /\ h_packet = <<FinalLine(EventFileName(<<49>>))>>
  /\ h_written # <<>>
  /\ h_written[1].name = EventFileName(<<49>>)
  /\ Len(h_written[1].indexes) >= 2
  /\ BufferOf(com_buffers, <<82>>) # <<>>
  /\ BufferedSeqs(com_buffers, <<82>>) = {1}
  /\ ~BufferOf(com_buffers, <<82>>)[1].final

ReadsCache == ReadsOf({EventHeatRow(1, 1), EventHeatRow(2, 1)}, {ClockBlank}, {}, {})

CacheLines ==
  {ChunkLine(name, 1, ChunkContent(1)) : name \in TransferNames}
  \cup {FinalLine(name) : name \in TransferNames}

NextCache ==
  \/ RaceNext({0}, ReadsCache)
  \/ \E line \in CacheLines : ProcessComPacket(line)

SpecCache == InitRace /\ [][NextCache]_vars

\* the event ids the console shows
CacheIds == {<<49>>, <<50>>}

\* cache after holds what cache before held, but for the keys dropped
CacheWithout(before, after, dropped) ==
  /\ DOMAIN after = DOMAIN before \ dropped
  /\ \A k \in DOMAIN after : after[k] = before[k]

\* C13: the step that writes the file of a name and removes its buffer drops
\* the entry of <id> from both caches when the name is E<id>.scb and keeps
\* every other entry; for any other name it keeps both caches as they were
C13_CacheInvalidated ==
  [][\A name \in TransferNames :
       (BufferOf(com_buffers, name) # <<>> /\ BufferOf(com_buffers', name) = <<>>
        /\ h_written' # <<>> /\ h_written'[1].name = name) =>
         /\ \A id \in CacheIds :
              name = EventFileName(id) =>
                /\ CacheWithout(event_cache, event_cache', {id})
                /\ CacheWithout(swimmer_cache, swimmer_cache', {id})
         /\ (\A id \in CacheIds : name # EventFileName(id)) =>
              /\ event_cache' = event_cache
              /\ swimmer_cache' = swimmer_cache]_vars

\* event 2 and then event 1 were shown, so both were cached; "E1.scb" was
\* then written and only the entries of event 2 are left
C13_Witness ==
  /\ last_event = <<49>>
  /\ h_packet = <<FinalLine(EventFileName(<<49>>))>>
  /\ h_written # <<>>
  /\ h_written[1].name = EventFileName(<<49>>)
  /\ DOMAIN event_cache = {<<50>>}
  /\ DOMAIN swimmer_cache = {<<50>>}

\* the three loops with one display client and the transfer of "R", where the
\* reads of the console port and of the transfer port may raise; run() is
\* entered once, when the program starts
ErrorLines == {MalformedLine, ChunkLine(<<82>>, 1, ChunkContent(1)), FinalLine(<<82>>)}

NextErrors ==
  \/ (now = StartTime /\ StartRun)
  \/ \E bytes \in ReadsHub :
       /\ \A c \in Clients : Len(h_expect[c]) < MaxDeltas
       /\ Tick(0, bytes)
  \/ TickReadError(1)
  \/ \E line \in ErrorLines : ProcessComPacket(line)
  \/ ReceiverReadError
  \/ BroadcasterGet
  \/ BroadcasterSend
  \/ HandlerStart(1)
  \/ HandlerClosed(1)
  \/ ClientClose(1)

SpecErrors == InitRace /\ [][NextErrors]_vars

\* C14: no iteration of a loop stops the system: the condition "running" of
\* the three while loops holds after every step taken while it holds,
\* the steps in which a read raises included
C14_ErrorConfined == [][running => running']_vars

\* the decoder over every byte value: the console first paints rows and
\* selects channels, then one more read brings a single byte
DecoderStep == MaxElapsed

\* lane 1 and the event row in one read; the clock; the bare selection of
\* channel 31, of channel 5 with the readout off and of channel 0
DecoderFills ==
  {RowBytes(1, LaneRow(1, 49, TimeA)) \o RowBytes(EVENT_HEAT_CHANNEL, EventHeatRow(1, 1)),
   RowBytes(RACE_TIME_CHANNEL, ClockTwelve),
   <<SelectByte(31)>>,
   <<SelectByte(5) + 1>>,
   <<SelectByte(0)>>}

NextDecoder ==
  \/ StartRun
  \/ \E bytes \in DecoderFills : now = StartTime /\ Tick(0, bytes)
  \/ \E b \in 0..255 : Tick(DecoderStep, <<b>>)
  \/ BroadcasterGet

SpecDecoder == InitRace /\ [][NextDecoder]_vars

\* C15: a read of one control byte above 190 blanks the 8 cells of the
\* channel its bits 1-5 address, complemented, and keeps every cell of the
\* other 31 channels; a control byte up to 190 changes no cell
C15_ClearOnlyAddressed ==
  [][\A b \in 128..255 :
       Tick(DecoderStep, <<b>>) =>
         LET c == 31 - ((b \div 2) % 32)
         IN IF b > 190
            THEN /\ \A i \in 0..7 : display'[c][i] = 32
                 /\ \A o \in (0..31) \ {c} : display'[o] = display[o]
            ELSE display' = display]_vars

\* lane 1 and the event row were painted in one read; channel 1 was then
\* cleared and the event row is still shown
C15_Witness ==
  /\ now = StartTime + DecoderStep
  /\ stream_state.channel = 1
  /\ \A i \in 0..7 : display[1][i] = 32
  /\ display[EVENT_HEAT_CHANNEL][0] = 49
  /\ display[EVENT_HEAT_CHANNEL][5] = 49

\* the cell a data byte writes while the readout is enabled
WrittenCell(b) == display'[stream_state.channel][b \div 16]

\* C16 as stated: a read of one data byte with a nibble 1..15 stores a digit
\* '0'..'9', the complement of the nibble, and nibble 0 on a channel above 0
\* stores the blank
C16_NibbleToDigit ==
  [][\A b \in 0..127 :
       (stream_state.data_readout /\ Tick(DecoderStep, <<b>>)) =>
         /\ (b % 16) # 0 => (WrittenCell(b) \in 48..57 /\ WrittenCell(b) = 48 + (15 - (b % 16)))
         /\ ((b % 16) = 0 /\ stream_state.channel > 0) => WrittenCell(b) = 32]_vars

\* C16 as the code has it: nibble n of 1..15 stores the character 48 + (15 - n),
\* which is one of the digits '9'..'0' for n in 6..15 and one of the
\* characters '>'..':' for n in 1..5; different nibbles store different
\* characters; nibble 0 on a channel above 0 stores the blank
C16_NibbleComplement ==
  [][\A b \in 0..127 :
       (stream_state.data_readout /\ Tick(DecoderStep, <<b>>)) =>
         /\ (b % 16) \in 6..15 => (WrittenCell(b) \in 48..57 /\ WrittenCell(b) + (b % 16) = 63)
         /\ (b % 16) \in 1..5 => (WrittenCell(b) \in 58..62 /\ WrittenCell(b) + (b % 16) = 63)
         /\ ((b % 16) = 0 /\ stream_state.channel > 0) => WrittenCell(b) = 32]_vars

\* channel 31 was selected and a data byte with nibble 1 stored '>' in its
\* last cell
C16_Witness ==
  /\ now = StartTime + DecoderStep
  /\ stream_state = [data_readout |-> TRUE, channel |-> 31]
  /\ display[31][7] = 62

\* C17: after a read of one byte the channel of the stream state is in 0..31
\* and the display still has 32 channels of 8 cells; a data byte changes at
\* most the cell at its high nibble, which is below 8, of the selected channel
C17_AddressInRange ==
  [][\A b \in 0..255 :
       Tick(DecoderStep, <<b>>) =>
         /\ stream_state'.channel \in 0..31
         /\ DOMAIN display' = 0..31
         /\ \A c \in 0..31 : DOMAIN display'[c] = 0..7
         /\ b <= 127 =>
              /\ (b \div 16) \in 0..7
              /\ \A c \in 0..31, i \in 0..7 :
                   display'[c][i] # display[c][i] =>
                     (c = stream_state.channel /\ i = b \div 16)]_vars

\* the control byte 129, whose bits 1-5 are clear, selected channel 31, the
\* highest, with the readout off
C17_Witness ==
  /\ now = StartTime + DecoderStep
  /\ stream_state = [data_readout |-> FALSE, channel |-> 31]

\* roster files for "E1.scb"
\* 26 lines "A--Z", "B--Z", ..., "Z--Z": the k-th line starts with letter k
Roster26 == [k \in 1..26 |-> <<64 + k, 45, 45, 90>>]

\* 30 lines whose second block holds only "--" and blank lines
RosterGap ==
  [k \in 1..30 |-> IF k \in 11..20 THEN (IF k % 2 = 0 THEN <<45, 45>> ELSE <<>>)
                   ELSE <<64 + ((k % 26) + 1), 45, 45, 90>>]

\* 9 lines: less than a title and a block
Roster9 == [k \in 1..9 |-> <<64 + k, 45, 45, 90>>]

\* a title and the lane lines "AB,C--X", "Plain--Y", "NoDash", "A--B--C",
\* " D , E -- W", "--", "" and "Q--", then a blank line
RosterNames ==
  <<<<84>>,
    <<65, 66, 44, 67, 45, 45, 88>>,
    <<80, 108, 97, 105, 110, 45, 45, 89>>,
    <<78, 111, 68, 97, 115, 104>>,
    <<65, 45, 45, 66, 45, 45, 67>>,
    <<32, 68, 32, 44, 32, 69, 32, 45, 45, 32, 87>>,
    <<45, 45>>,
    <<>>,
    <<81, 45, 45>>,
    <<>>>>

\* 11 lines: a title, a block and its separator, one more line
Roster11 == [k \in 1..11 |-> <<64 + k, 45, 45, 90>>]

RosterFiles == {Roster26, RosterGap, Roster9, Roster11, RosterNames}

\* the roster directory holds one of the files as "E1.scb"
InitRoster ==
  \E ls \in RosterFiles : InitWith([n \in {EventFileName(<<49>>)} |-> FileOfLines(ls)])

\* the console shows heats 1 to 3 of event 1 and starts and stops the clock
ReadsRoster ==
  ReadsOf({EventHeatRow(1, 1), EventHeatRow(1, 2), EventHeatRow(1, 3)},
          {ClockBlank, ClockTwelve}, {LaneRow(1, 32, NoTime)}, {})

NextRoster == RaceNext({0, 5000}, ReadsRoster)

SpecRoster == InitRoster /\ [][NextRoster]_vars

\* the roster file is the file of these lines and its heats are cached
Parsed(ls) ==
  /\ files[EventFileName(<<49>>)] = FileOfLines(ls)
  /\ <<49>> \in DOMAIN swimmer_cache

\* lines a to b of a file, counted from 1
FileLines(ls, a, b) == [i \in 1..(b - a + 1) |-> ls[a + i - 1]]

\* C18 as stated: of the 26-line file, heat 1 is lines 1-8 and heat 2 is lines
\* 11-18, counted from 1
C18_HeatLinesFromOne ==
  Parsed(Roster26) =>
    /\ Len(swimmer_cache[<<49>>]) >= 2
    /\ swimmer_cache[<<49>>][1] = FileLines(Roster26, 1, 8)
    /\ swimmer_cache[<<49>>][2] = FileLines(Roster26, 11, 18)

\* C18 as the code has it: of the 26-line file, heat 1 is lines 2-9 and heat 2
\* is lines 12-19, counted from 1 (line 1 is the title)
C18_HeatLinesAfterTitle ==
  Parsed(Roster26) =>
    /\ Len(swimmer_cache[<<49>>]) >= 2
    /\ swimmer_cache[<<49>>][1] = FileLines(Roster26, 2, 9)
    /\ swimmer_cache[<<49>>][2] = FileLines(Roster26, 12, 19)

\* heat 2 of the 26-line file is shown: lane 1 is "L", the swimmer of line 12
C18_Witness ==
  /\ Parsed(Roster26)
  /\ last_heat = <<50>>
  /\ last_swimmers[1] = [name |-> <<76>>, club |-> <<90>>]
  /\ last_swimmers[8] = [name |-> <<83>>, club |-> <<90>>]

\* lane i of heat n of a file: line 10n-9+i counted from 1, "--" and a
\* missing line read as an empty lane
LaneEntry(ls, n, i) ==
  IF 10 * n - 9 + i > Len(ls) \/ Strip(ls[10 * n - 9 + i]) = <<45, 45>> THEN <<>>
  ELSE Strip(ls[10 * n - 9 + i])

HeatEmpty(ls, n) == \A i \in 1..8 : LaneEntry(ls, n, i) = <<>>

\* the cached heats of the file are its first count heats
HeatsAre(ls, count) ==
  /\ Len(swimmer_cache[<<49>>]) = count
  /\ \A n \in 1..count : \A i \in 1..8 :
       swimmer_cache[<<49>>][n][i] = LaneEntry(ls, n, i)

\* the heats before the first empty heat and before the first block with
\* fewer than 10 lines left
CompleteHeats(ls) ==
  CHOOSE count \in 0..(Len(ls) \div 10 + 1) :
    /\ \A n \in 1..count : Len(ls) - 10 * (n - 1) >= 10 /\ ~HeatEmpty(ls, n)
    /\ ~(Len(ls) - 10 * count >= 10 /\ ~HeatEmpty(ls, count + 1))

\* the heats before the first empty heat and before the end of the file, of a
\* file of at least 10 lines
PaddedHeats(ls) ==
  IF Len(ls) < 10 THEN 0
  ELSE CHOOSE count \in 0..(Len(ls) \div 10 + 1) :
         /\ \A n \in 1..count : 10 * n - 9 < Len(ls) /\ ~HeatEmpty(ls, n)
         /\ ~(10 * (count + 1) - 9 < Len(ls) /\ ~HeatEmpty(ls, count + 1))

\* C19 as stated: the heats of a file are those before the first heat whose 8
\* lane lines are all "--" or blank and before the first block with fewer than
\* 10 lines left: a trailing partial block is no heat
C19_PartialBlockDropped ==
  \A ls \in RosterFiles : Parsed(ls) => HeatsAre(ls, CompleteHeats(ls))

\* C19 as the code has it: a file of fewer than 10 lines has no heats; of any
\* other file the heats are those before the first heat whose 8 lane lines
\* are all "--" or blank and before the end of the file, a trailing partial
\* block being a heat whose missing lanes are empty
C19_PartialBlockPadded ==
  \A ls \in RosterFiles : Parsed(ls) => HeatsAre(ls, PaddedHeats(ls))

\* heat 3 of the 26-line file is shown: its lanes are lines 22-26 and three
\* empty lanes
C19_Witness ==
  /\ Parsed(Roster26)
  /\ Len(swimmer_cache[<<49>>]) = 3
  /\ swimmer_cache[<<49>>][3][5] = Roster26[26]
  /\ swimmer_cache[<<49>>][3][6] = <<>>
  /\ last_heat = <<51>>
  /\ last_swimmers[5] = [name |-> <<90>>, club |-> <<90>>]

\* the 30-line file with an empty second heat is parsed to its first heat only
C19_WitnessGap ==
  /\ Parsed(RosterGap)
  /\ Len(swimmer_cache[<<49>>]) = 1
  /\ ~HeatEmpty(RosterGap, 3)

\* the number of separators "--" of a line, read from the left
RECURSIVE CountDashes(_)
CountDashes(s) ==
  IF Len(s) < 2 THEN 0
  ELSE IF s[1] = 45 /\ s[2] = 45 THEN 1 + CountDashes(SubSeq(s, 3, Len(s)))
  ELSE CountDashes(Tail(s))

\* the swimmer of a line with one separator at positions k, k + 1
SwimmerAt(s, k) ==
  LET Name(left) ==
        IF \E c \in 1..Len(left) : left[c] = 44
        THEN LET c == CHOOSE c \in 1..Len(left) :
                        left[c] = 44 /\ \A j \in 1..(c - 1) : left[j] # 44
             IN Strip(SubSeq(left, c + 1, Len(left))) \o <<32>>
                \o Strip(SubSeq(left, 1, c - 1))
        ELSE left
  IN [name |-> Name(Strip(SubSeq(s, 1, k - 1))),
      club |-> Strip(SubSeq(s, k + 2, Len(s)))]

\* the swimmer of a roster line
SwimmerOfLine(s) ==
  IF CountDashes(s) = 1
  THEN SwimmerAt(s, CHOOSE k \in 1..(Len(s) - 1) : s[k] = 45 /\ s[k + 1] = 45)
  ELSE [name |-> <<>>, club |-> <<>>]

\* the heat shown is a heat of the cached roster of the event shown
HeatShown(h) ==
  /\ last_event \in DOMAIN swimmer_cache
  /\ last_heat = <<48 + h>>
  /\ h <= Len(swimmer_cache[last_event])

\* C20: a roster line with the separator "--" exactly once gives the name
\* "<forename> <surname>" when its left part has a comma, else the trimmed left
\* part, and the trimmed right part as club; a line without the separator or
\* with more than one gives an empty name and club
C20_SwimmerOfLine ==
  \A h \in 1..3 : HeatShown(h) =>
    \A i \in Lanes :
      last_swimmers[i] = SwimmerOfLine(swimmer_cache[last_event][h][i])

\* the heat of "AB,C--X", "Plain--Y", "NoDash", "A--B--C", " D , E -- W" and
\* "Q--" is shown as "C AB" of X, "Plain" of Y, nobody, nobody, "E D" of W and
\* "Q" of no club
C20_Witness ==
  /\ Parsed(RosterNames)
  /\ HeatShown(1)
  /\ last_swimmers[1] = [name |-> <<67, 32, 65, 66>>, club |-> <<88>>]
  /\ last_swimmers[2] = [name |-> <<80, 108, 97, 105, 110>>, club |-> <<89>>]
  /\ last_swimmers[3] = [name |-> <<>>, club |-> <<>>]
  /\ last_swimmers[4] = [name |-> <<>>, club |-> <<>>]
  /\ last_swimmers[5] = [name |-> <<69, 32, 68>>, club |-> <<87>>]
  /\ last_swimmers[8] = [name |-> <<81>>, club |-> <<>>]

\* ------------------------------------------------------------------------
\* The race clock
\* ------------------------------------------------------------------------
\* rows of channel 0: 00:00.00, 0.09, 0.10, 23.4 with a blank last cell,
\* 01:23.45, and .50 with blank seconds cells
ClockZero == <<32, 32, 48, 48, 48, 48, 48, 48>>

ClockNine == <<32, 32, 32, 32, 32, 48, 48, 57>>

ClockTen == <<32, 32, 32, 32, 32, 48, 49, 48>>

ClockTenths == <<32, 32, 32, 32, 50, 51, 52, 32>>

ClockMinute == <<32, 32, 48, 49, 50, 51, 52, 53>>

ClockNoSeconds == <<32, 32, 32, 32, 32, 32, 53, 48>>

\* the clock rows with the value each shows in hundredths of a second, None
\* for a row that shows no value
ClockTable ==
  {[row |-> ClockBlank, value |-> None], [row |-> ClockZero, value |-> 0],
   [row |-> ClockNine, value |-> 9], [row |-> ClockTen, value |-> 10],
   [row |-> ClockTenths, value |-> 2340], [row |-> ClockMinute, value |-> 8345],
   [row |-> ClockNoSeconds, value |-> None], [row |-> ClockTwelve, value |-> 1200]}

\* the text _get_race_time reads from a clock row
ClockText(row) == Strip(<<row[3], row[4], 58, row[5], row[6], 46, row[7], row[8]>>)

\* how far the wall clock advances in the runs of the clock
TimerElapsed == 200

ReadsTimer == ReadsOf({}, {r.row : r \in ClockTable}, {}, {})

\* the main loop polls every 0, 50 or 100 ms
NextTimer ==
  \/ StartRun
  \/ \E dt \in {0, 50, 100}, bytes \in ReadsTimer :
       now + dt <= StartTime + TimerElapsed /\ Tick(dt, bytes)
  \/ BroadcasterGet

SpecTimer == InitRace /\ [][NextTimer]_vars

\* the text has no digit other than 0
NoNonZeroDigit(text) == \A i \in 1..Len(text) : text[i] \notin 49..57

\* C21: clock text is parsed as minutes * 60 + seconds + fraction, a single
\* fractional digit counting tenths and two counting hundredths ("01:23.45" is
\* 83.45 s and "23.4" is 23.4 s), and a poll that handles a new clock text
\* leaves the clock stopped exactly when the text has no non-zero digit, is
\* unparseable, or shows at most 0.09 s; a clock that starts takes the parsed
\* value as its offset
C21_ClockParsed ==
  [][/\ ParseTimeToSeconds(<<48, 49, 58, 50, 51, 46, 52, 53>>) = 8345
     /\ ParseTimeToSeconds(<<50, 51, 46, 52>>) = 2340
     /\ \A r \in ClockTable :
          (last_race_time' = ClockText(r.row) /\ last_race_time' # last_race_time) =>
            /\ ParseTimeToSeconds(last_race_time') = r.value
            /\ ~timer_running' <=>
                 (NoNonZeroDigit(last_race_time') \/ r.value = None \/ r.value <= 9)
            /\ (~timer_running /\ timer_running') =>
                 timer_offset' = r.value + TIMER_LATENCY_COMPENSATION]_vars

\* the clock was started by the text ":23.4" and took 23.40 s plus the latency
\* as its offset
C21_Witness ==
  /\ timer_running
  /\ last_race_time = <<58, 50, 51, 46, 52>>
  /\ timer_offset = 2340 + TIMER_LATENCY_COMPENSATION

\* two heats of a 100 m event, a 50 m event and a 25 m event: lane 1 is
\* switched on and shows a time, the clock starts and stops
ReadsStop ==
  ReadsOf({EventHeatRow(1, 1), EventHeatRow(1, 2), EventHeatRow(2, 1), EventHeatRow(3, 1)},
          {ClockBlank, ClockTwelve},
          {LaneRow(1, 32, NoTime), LaneRow(1, 49, TimeA)},
          {})

NextStop == RaceNext({0, 5000}, ReadsStop)

SpecStop == InitRace /\ [][NextStop]_vars

\* the positions in a list of the messages that stop the timer, that start it
\* (with the active lanes), and that say the race is saved
StopSyncs(msgs) ==
  {i \in 1..Len(msgs) : msgs[i].kind = "TimerSync" /\ ~msgs[i].running}

StartSyncs(msgs) ==
  {i \in 1..Len(msgs) : msgs[i].kind = "TimerSync" /\ msgs[i].running
                        /\ "activeLanes" \in DOMAIN msgs[i]}

Saveds(msgs) == {i \in 1..Len(msgs) : msgs[i].kind = "Saved"}

\* C25: a step that stops the running clock queues exactly one
\* TimerSync{running: false, time: 0}, after the Saved of the step when there
\* is one; a step that does not stop the clock queues no stop message, and a
\* step queues a start message exactly when it starts the stopped clock: the
\* clock being stopped at first, starts and stops alternate from a start on
C25_StopAfterSaved ==
  [][/\ (timer_running /\ ~timer_running') =>
          /\ Cardinality(StopSyncs(Queued)) = 1
          /\ \A i \in StopSyncs(Queued) :
               /\ Queued[i].time = 0
               /\ \A j \in Saveds(Queued) : j < i
     /\ ~(timer_running /\ ~timer_running') => StopSyncs(Queued) = {}
     /\ Cardinality(StartSyncs(Queued)) = IF ~timer_running /\ timer_running' THEN 1 ELSE 0
    ]_vars

\* the poll that stopped the clock queued Saved and then the stop message
C25_Witness ==
  /\ ~timer_running
  /\ Len(data_queue) = 2
  /\ data_queue[1].kind = "Saved"
  /\ data_queue[2].kind = "TimerSync"
  /\ ~data_queue[2].running
  /\ data_queue[2].time = 0

\* the step changes the event or the heat
EventOrHeatChanged == <<last_event', last_heat'>> # <<last_event, last_heat>>

\* the step stops the running clock
ClockStops == timer_running /\ ~timer_running'

\* what the time handler of the step finds: the event handler has run before it
\* and has reset the saved flag and the counts when the event or heat changed
SavedBeforeStop == IF EventOrHeatChanged THEN FALSE ELSE saved_sent_for_heat

CountsBeforeStop == IF EventOrHeatChanged THEN ZeroCounts ELSE lane_time_counts

\* every active lane has its expected number of times when the clock stops
ActiveLanesDone ==
  \A lane \in active_lanes : CountsBeforeStop[lane] >= expected_times_per_lane'

\* C24 as stated: a step that stops the clock with Saved not yet sent for the
\* heat and every active lane at its expected count queues Saved, also when no
\* lane is active
C24_SavedAlsoWithoutLanes ==
  [][(ClockStops /\ ~SavedBeforeStop /\ ActiveLanesDone) => Saveds(Queued) # {}]_vars

\* C24 as the code has it: a step that stops the clock with Saved not yet sent
\* for the heat queues Saved exactly when some lane is active, the expected
\* count is not 0 and every active lane has reached it
C24_SavedWithActiveLanes ==
  [][(ClockStops /\ ~SavedBeforeStop) =>
       (Saveds(Queued) # {} <=>
          (active_lanes # {} /\ expected_times_per_lane' # 0 /\ ActiveLanesDone))]_vars

\* the clock of a 50 m heat was stopped with lane 1 active and timed once, and
\* Saved was queued
C24_Witness ==
  /\ ~timer_running
  /\ active_lanes = {1}
  /\ expected_times_per_lane = 1
  /\ lane_time_counts[1] = 1
  /\ h_saved = 1
  /\ data_queue # <<>>
  /\ data_queue[1].kind = "Saved"

\* the positions in a list of the TimerSync messages of a running clock
RunningSyncs(msgs) ==
  {i \in 1..Len(msgs) : msgs[i].kind = "TimerSync" /\ msgs[i].running}

\* C26: a step that starts the stopped clock records the time of the step as
\* the start instant, sets timer_offset to the parsed clock value plus 0.25 s,
\* and queues exactly one TimerSync of a running clock, which carries that
\* offset as its time, the accepted active lanes in order and their number
C26_StartSync ==
  [][(~timer_running /\ timer_running') =>
       /\ timer_start_time' = now'
       /\ timer_offset' = ParseTimeToSeconds(last_race_time') + 25
       /\ Cardinality(RunningSyncs(Queued)) = 1
       /\ \A i \in RunningSyncs(Queued) :
            /\ Queued[i].time = ParseTimeToSeconds(last_race_time') + 25
            /\ Queued[i].timestamp = now'
            /\ "activeLanes" \in DOMAIN Queued[i]
            /\ Queued[i].activeLanes = SortedList(active_lanes)
            /\ Queued[i].totalActive = Cardinality(active_lanes)]_vars

\* the clock was started at 12.00 with lane 1 accepted as active: the message
\* carries 12.25 s, the lane and the count 1
C26_Witness ==
  /\ timer_running
  /\ timer_start_time = now
  /\ timer_offset = 1225
  /\ data_queue # <<>>
  /\ data_queue[1].kind = "TimerSync"
  /\ data_queue[1].running
  /\ data_queue[1].time = 1225
  /\ "activeLanes" \in DOMAIN data_queue[1]
  /\ data_queue[1].activeLanes = <<1>>
  /\ data_queue[1].totalActive = 1

\* C27: while the clock runs, a TimerSync of the running clock is queued at
\* least TIMER_SYNC_INTERVAL after the one before it, be that the message of
\* the clock start or an earlier re-emission
C27_SyncSpacing ==
  [][\A i \in RunningSyncs(Queued) :
       (timer_running /\ "activeLanes" \notin DOMAIN Queued[i]) =>
         now' - Max(timer_start_time, last_sync_time) >= TIMER_SYNC_INTERVAL]_vars

\* the lines of the roster file of an event of the meet
MeetLines(event) ==
  IF event = <<49>> THEN Event1Lines
  ELSE IF event = <<50>> THEN Event2Lines
  ELSE IF event = <<51>> THEN Event3Lines
  ELSE <<>>

\* the roster of heat n of an event of the meet
MeetRoster(event, n) ==
  IF n <= PaddedHeats(MeetLines(event))
  THEN [i \in Lanes |-> SwimmerOfLine(LaneEntry(MeetLines(event), n, i))]
  ELSE [i \in Lanes |-> [name |-> <<>>, club |-> <<>>]]

\* the times per lane of the events of the meet: 100 m, 50 m and 25 m
MeetExpected(event) ==
  IF event = <<49>> THEN 2 ELSE IF event = <<50>> THEN 1 ELSE 0

\* the state the event handler returns in a step that changes the event or heat
AfterEventChange ==
  HandleEventChange([RaceRec EXCEPT !.running = TRUE], files, last_event', last_heat')

\* C28: when the event or the heat changes, the event handler returns with
\* all eight lane counts 0, the DQ-sent set empty, the saved flag false, the
\* last raw times cleared, the roster of the new heat stored and one
\* EventHeatUpdate queued; expected_times_per_lane is that of the new event on
\* an event change and is left as it was on a heat change; the poll ends with
\* that roster and expected count, and with the counts still 0 when the clock
\* is not running
C28_ChangeResets ==
  [][LET Resets(r, roster) ==
        /\ r.lane_time_counts = [i \in Lanes |-> 0]
        /\ r.dq_sent_for_heat = {}
        /\ ~r.saved_sent_for_heat
        /\ \A i \in Lanes : r.last_finish_times[i] = <<>>
        /\ r.last_swimmers = roster
        /\ Len(r.out) = 1
        /\ r.out[1].kind = "EventHeatUpdate"
        /\ r.out[1].lanes = roster
        /\ r.expected_times_per_lane =
             IF last_event' # last_event THEN MeetExpected(last_event')
             ELSE expected_times_per_lane
        /\ last_swimmers' = roster
        /\ expected_times_per_lane' = r.expected_times_per_lane
        /\ Queued # <<>> /\ Queued[1] = r.out[1]
        /\ ~saved_sent_for_heat'
        /\ ~timer_running' =>
             /\ lane_time_counts' = [i \in Lanes |-> 0]
             /\ dq_sent_for_heat' = {}
             /\ \A i \in Lanes : last_finish_times'[i] = <<>>
  IN EventOrHeatChanged =>
       \A r \in {AfterEventChange} :
         \A roster \in {MeetRoster(last_event', last_heat'[1] - 48)} :
           Resets(r, roster)]_vars

\* heat 2 of the 100 m event follows heat 1, in which lane 1 was timed and
\* Saved was not sent: the counts are 0 again and the roster is that of heat 2
C28_Witness ==
  /\ last_event = <<49>>
  /\ last_heat = <<50>>
  /\ expected_times_per_lane = 2
  /\ lane_time_counts = [i \in Lanes |-> 0]
  /\ last_swimmers[1] = [name |-> <<76, 32, 74, 75>>, club |-> <<88>>]
  /\ last_swimmers[2] = [name |-> <<>>, club |-> <<>>]
  /\ data_queue # <<>>
  /\ data_queue[1].kind = "EventHeatUpdate"
  /\ "eventName" \notin DOMAIN data_queue[1]

\* the positions in a list of the FinishTime and Disqualification messages
LaneResults(msgs) ==
  {i \in 1..Len(msgs) : msgs[i].kind \in {"FinishTime", "Disqualification"}}

\* C29: a poll that leaves the clock not running queues no FinishTime and no
\* Disqualification whatever the lane channels show, and its lane evaluation
\* changes no lane count, no DQ-sent entry and no last raw time: they are as
\* before the poll, or as the event handler reset them when the event or heat
\* changed
C29_NoResultsWhileStopped ==
  [][(running /\ ~timer_running') =>
       /\ LaneResults(Queued) = {}
       /\ lane_time_counts' = CountsBeforeStop
       /\ dq_sent_for_heat' = IF EventOrHeatChanged THEN {} ELSE dq_sent_for_heat
       /\ last_finish_times' =
            IF EventOrHeatChanged THEN [i \in Lanes |-> <<>>] ELSE last_finish_times]_vars

\* the clock is stopped after a run, the roster of a heat is loaded and lane 1
\* shows the time 00:35.00 with place 1, which has not been queued for it
C29_Witness ==
  /\ running
  /\ ~timer_running
  /\ timer_start_time # None
  /\ last_event = <<49>>
  /\ last_swimmers[1].name # <<>>
  /\ GetLaneTime(display, 1) = [time |-> <<48, 48, 58, 51, 53, 46, 48, 48>>, place |-> <<49>>]
  /\ last_finish_times[1] = <<>>
  /\ h_finish[1] = 0
  /\ h_dq[1] = 0

\* C30: a FinishTime is queued for a lane only when the raw time the lane
\* shows differs from the raw time of the FinishTime queued last for the lane
\* in the heat
C30_NoRepeatedTime ==
  [][\A lane \in Lanes :
       CountKindLane(Queued, "FinishTime", lane) > 0 =>
         RemoveChar(GetLaneTime(display', lane).time, 32) #
           (IF EventOrHeatChanged THEN <<>> ELSE h_raw[lane])]_vars

\* ------------------------------------------------------------------------
\* Lane activity
\* ------------------------------------------------------------------------
\* how far the wall clock advances while the lanes are switched
LanesElapsed == 900

\* two heats of an event: lanes 1 and 2 are switched on and off
ReadsLanes ==
  ReadsOf({EventHeatRow(1, 1), EventHeatRow(1, 2)}, {},
          {LaneOff, LaneRow(1, 32, NoTime)}, {LaneOff, LaneRow(2, 32, NoTime)})

\* the main loop polls every 0, 150 or 300 ms
NextLanes ==
  \/ StartRun
  \/ \E dt \in {0, 150, 300}, bytes \in ReadsLanes :
       now + dt <= StartTime + LanesElapsed /\ Tick(dt, bytes)
  \/ BroadcasterGet

SpecLanes == InitRace /\ [][NextLanes]_vars

\* the step takes a sample of the lanes
Sampled == last_lane_check_time' # last_lane_check_time

\* the lanes that show their own number after the step and have a swimmer
ShownActive ==
  {lane \in Lanes : display'[lane][0] = 48 + lane
                    /\ lane \in DOMAIN last_swimmers'
                    /\ Strip(last_swimmers'[lane].name) # <<>>}

\* the positions in a list of the ActiveLanesUpdate messages
LaneUpdates(msgs) == {i \in 1..Len(msgs) : msgs[i].kind = "ActiveLanesUpdate"}

\* C22: the lanes are sampled at most once per 300 ms; a sample makes the set
\* it computes the pending one; the accepted set changes only on a sample
\* that computes the set the sample before it computed, and an
\* ActiveLanesUpdate with the accepted set and its size is queued exactly when
\* the accepted set changes: a set seen on one sample only is neither accepted
\* nor queued
C22_Debounce ==
  [][/\ Sampled =>
          /\ last_lane_check_time' = now'
          /\ now' - last_lane_check_time >= 300
          /\ pending_active_lanes' = <<ShownActive>>
     /\ ~Sampled => pending_active_lanes' = pending_active_lanes
     /\ active_lanes' # active_lanes =>
          /\ Sampled
          /\ active_lanes' = ShownActive
          /\ pending_active_lanes = <<ShownActive>>
     /\ (Sampled /\ pending_active_lanes = <<ShownActive>>) => active_lanes' = ShownActive
     /\ Cardinality(LaneUpdates(Queued)) = IF active_lanes' # active_lanes THEN 1 ELSE 0
     /\ \A i \in LaneUpdates(Queued) :
          /\ Queued[i].activeLanes = SortedList(active_lanes')
          /\ Queued[i].totalActive = Cardinality(active_lanes')]_vars

\* lanes 1 and 2 were accepted as active on the second of two samples that
\* showed both, and the update is queued
C22_Witness ==
  /\ active_lanes = {1, 2}
  /\ pending_active_lanes = <<{1, 2}>>
  /\ last_lane_check_time = now
  /\ data_queue # <<>>
  /\ data_queue[Len(data_queue)].kind = "ActiveLanesUpdate"
  /\ data_queue[Len(data_queue)].activeLanes = <<1, 2>>
  /\ data_queue[Len(data_queue)].totalActive = 2

\* ------------------------------------------------------------------------
\* The roster caches while files arrive
\* ------------------------------------------------------------------------
\* the main loop and the file receiver thread: a lookup of the roster of an
\* event runs in one step, or in two with steps of the receiver in between
NextRace ==
  \/ StartRun
  \/ \E bytes \in ReadsCache : Tick(0, bytes)
  \/ \E bytes \in ReadsCache : TickRead(0, bytes)
  \/ TickStore
  \/ \E line \in CacheLines : ProcessComPacket(line)
  \/ BroadcasterGet

SpecRace == InitRace /\ [][NextRace]_vars

\* C23: the name and the heats the caches hold for an event are those of the
\* roster file of the event as it is now, whenever no lookup is in progress:
\* a lookup after a file was written and the caches invalidated gives the
\* content of the new file
C23_CachesFresh ==
  lookup = <<>> =>
    \A id \in CacheIds :
      /\ id \in DOMAIN swimmer_cache =>
           swimmer_cache[id] = ParseSwimmerData(files, EmptyDict, id).heats
      /\ id \in DOMAIN event_cache =>
           event_cache[id] = GetEventName(files, EmptyDict, id).name

\* ------------------------------------------------------------------------
\* Lane times that are skipped
\* ------------------------------------------------------------------------
\* 0:00.50, a time with one non-zero digit
TimeTenths == <<32, 32, 32, 32, 53, 48>>

\* two heats of a 100 m event, lane 2 having a swimmer in heat 1 only: the
\* clock shows nothing, 0.50 or 12.00, lane 1 shows 0:31.20 or 0:00.50 and
\* lane 2 shows 1:02.45
ReadsSkip ==
  ReadsOf({EventHeatRow(1, 1), EventHeatRow(1, 2)},
          {ClockBlank, ClockHalfSecond, ClockTwelve},
          {LaneRow(1, 49, TimeA), LaneRow(1, 49, TimeTenths)},
          {LaneRow(2, 50, TimeC)})

\* the polls follow each other without delay
NextSkip == RaceNext({0}, ReadsSkip)

SpecSkip == InitRace /\ [][NextSkip]_vars

\* the race clock of the poll runs and shows less than 1.0 s
EarlyClock ==
  timer_running' /\ \E c \in {ParseTimeToSeconds(last_race_time')} : c # None /\ c > 0 /\ c < 100

\* the last raw times the lane evaluation of the step finds
RawBeforeLanes ==
  IF EventOrHeatChanged THEN [i \in Lanes |-> <<>>] ELSE last_finish_times

C31_WitnessEarly ==
  /\ timer_running
  /\ ParseTimeToSeconds(last_race_time) = 50
  /\ SwimmerName(last_swimmers, 1) # <<>>
  /\ GetLaneTime(display, 1).time = <<48, 48, 58, 51, 49, 46, 50, 48>>
  /\ h_finish[1] = 0
  /\ last_finish_times[1] = <<>>

\* ------------------------------------------------------------------------
\* The accepted active lanes
\* ------------------------------------------------------------------------
\* C32: every lane of the accepted active set shows its own number on the
\* console and has a non-empty name in the roster of the current heat
C32_AcceptedLanesActive ==
  \A lane \in active_lanes :
    /\ IsLaneActive(display, lane)
    /\ Strip(SwimmerName(last_swimmers, lane)) # <<>>

\* the accepted lanes have a swimmer in the heat, though they may be switched off
C32_AcceptedLanesHaveSwimmer ==
  \A lane \in active_lanes : Strip(SwimmerName(last_swimmers, lane)) # <<>>

\* ------------------------------------------------------------------------
\* The lifetime of a transfer buffer
\* ------------------------------------------------------------------------
\* C33: a final marker for a name with no buffered chunk leaves no buffer for
\* the name, a record that carries a chunk writes no file, and no buffer is
\* left for a name once its file has been written
C33_BufferLifetime ==
  [][\A name \in TransferNames :
       /\ (h_packet' = <<FinalLine(name)>> /\ BufferedSeqs(com_buffers, name) = {}) =>
            BufferOf(com_buffers', name) = <<>>
       /\ (h_packet' # <<>> /\ h_packet'[1].json /\ h_packet'[1].name = name
           /\ ~h_packet'[1].final) => h_written' = <<>>
       /\ (h_written' # <<>> /\ h_written'[1].name = name) =>
            BufferOf(com_buffers', name) = <<>>]_vars

\* the third part alone: the step that writes the file of a name leaves no
\* buffer for the name
C33_NoBufferAfterWrite ==
  [][\A name \in TransferNames :
       (h_written' # <<>> /\ h_written'[1].name = name) =>
         BufferOf(com_buffers', name) = <<>>]_vars

\* ------------------------------------------------------------------------
\* What the file receiver leaves alone
\* ------------------------------------------------------------------------
\* the step is one of the file receiver: it processed a record
ReceiverStep ==
  \/ h_packet' # h_packet
  \/ h_written' # h_written
  \/ com_buffers' # com_buffers
  \/ files' # files

\* C34: a step of the file receiver, the one that writes the roster file of
\* the event on display included, leaves the display buffer and the stream
\* state, the stored event, heat and roster, the lane counts and last raw
\* times, the clock state and the active lanes as they were, queues no message
\* and takes none off the queue
C34_ReceiverFrame ==
  [][ReceiverStep =>
       /\ display' = display
       /\ stream_state' = stream_state
       /\ <<last_event', last_heat', last_event_name'>>
            = <<last_event, last_heat, last_event_name>>
       /\ last_swimmers' = last_swimmers
       /\ <<lane_time_counts', expected_times_per_lane', last_finish_times'>>
            = <<lane_time_counts, expected_times_per_lane, last_finish_times>>
       /\ <<saved_sent_for_heat', dq_sent_for_heat'>>
            = <<saved_sent_for_heat, dq_sent_for_heat>>
       /\ <<timer_running', timer_start_time', timer_offset', last_sync_time',
            last_race_time'>>
            = <<timer_running, timer_start_time, timer_offset, last_sync_time,
                last_race_time>>
       /\ <<active_lanes', last_active_lanes', pending_active_lanes',
            last_lane_check_time'>>
            = <<active_lanes, last_active_lanes, pending_active_lanes,
                last_lane_check_time>>
       /\ data_queue' = data_queue
       /\ websocket_clients' = websocket_clients]_vars

\* the receiver has written a new "E1.scb" while event 1 is on display: the
\* stored roster is still the one read from the file before
C34_Witness ==
  /\ h_packet = <<FinalLine(EventFileName(<<49>>))>>
  /\ h_written # <<>>
  /\ h_written[1].name = EventFileName(<<49>>)
  /\ files[EventFileName(<<49>>)] = <<49>>
  /\ last_event = <<49>>
  /\ GetEventAndHeat(display)[1] = <<49>>
  /\ SwimmerName(last_swimmers, 1) # <<>>
  /\ last_swimmers = MeetRoster(<<49>>, 1)

\* ------------------------------------------------------------------------
\* The snapshot of a new client
\* ------------------------------------------------------------------------
\* the step starts the handler of client c on an open connection
Connects(c) == handler_pc[c] = "idle" /\ handler_pc'[c] = "waiting"

\* the message the step sent to client c
MessageTo(c) == received'[c][Len(received'[c])]

\* the race clock in hundredths a client shows at the wall-clock time of the
\* step when it has every TimerSync: the offset of the start plus the time
\* since the start while the clock runs, 0 when it is stopped
ClockOfDeltas ==
  IF timer_running THEN timer_offset + (now - timer_start_time) \div 10 ELSE 0

\* the snapshot carries the event, heat, roster and accepted active lanes of
\* the race state at the time of the connection
C35_SnapshotRaceState ==
  [][\A c \in Clients :
       Connects(c) =>
         \A m \in {MessageTo(c)} :
           /\ m.kind = "Snapshot"
           /\ m.eventName = Upper(IF last_event_name = <<>> THEN NA ELSE last_event_name)
           /\ m.eventID = (IF last_event = <<>> THEN NA ELSE last_event)
           /\ m.heatName = (IF last_heat = <<>> THEN NA ELSE <<72, 69, 65, 84, 32>> \o last_heat)
           /\ last_swimmers # <<>> => m.lanes = last_swimmers
           /\ m.activeLanes = SortedList(active_lanes)
           /\ m.totalActive = Cardinality(active_lanes)
           /\ m.timerSync.running = timer_running
           /\ m.timerSync.timestamp = now]_vars

\* C35: the snapshot carries that race state and the timer state computed
\* from the recorded start: running or not, and as time the offset plus the
\* time elapsed since the start instant while the clock runs
C35_SnapshotClock ==
  [][\A c \in Clients :
       Connects(c) =>
         \A m \in {MessageTo(c)} :
           /\ m.kind = "Snapshot"
           /\ m.eventID = (IF last_event = <<>> THEN NA ELSE last_event)
           /\ m.activeLanes = SortedList(active_lanes)
           /\ m.timerSync.running = timer_running
           /\ m.timerSync.timestamp = now
           /\ m.timerSync.time = ClockOfDeltas]_vars

\* ------------------------------------------------------------------------
\* The hub of Main.py (CTSGen7Reader)
\* ------------------------------------------------------------------------
\* run() of Main.py up to its main loop, with nothing on the display yet
MainRun ==
  /\ ~running
  /\ running' = TRUE
  /\ UNCHANGED <<lookup, decoderVars, fileVars, raceVars, hubVars, data_queue, com_buffers,
                 now, raceHistory, hubHistory, fileHistory>>

\* the messages the main loop of Main.py hands to _send_websocket_data
MainDeltas ==
  {[kind |-> "TimerSync", running |-> TRUE, time |-> 1225, timestamp |-> StartTime],
   [kind |-> "TimerSync", running |-> FALSE, time |-> 0, timestamp |-> StartTime]}

\* _send_websocket_data of Main.py: the message is queued when a client is
\* registered and dropped otherwise
MainSendWebsocketData(data) ==
  /\ running
  /\ Len(data_queue) <= MaxBacklog
  /\ \A c \in Clients : Len(h_expect[c]) < MaxDeltas
  /\ data_queue' = IF websocket_clients # {} THEN Append(data_queue, data) ELSE data_queue
  /\ UNCHANGED <<lookup, decoderVars, fileVars, raceVars, hubVars, running, com_buffers, now,
                 raceHistory, hubHistory, fileHistory>>

\* initial_data of _websocket_handler of Main.py
MainInitialData ==
  LET race_seconds == ParseTimeToSeconds(last_race_time)
  IN [kind |-> "Snapshot",
      eventName |-> Upper(IF last_event_name # <<>> THEN last_event_name ELSE NA),
      heatName |-> DisplayHeat(last_heat),
      eventHidden |-> FALSE,
      lanes |-> IF last_swimmers # EmptyDict THEN last_swimmers ELSE DefaultSwimmers,
      timerSync |-> [running |-> timer_running,
                     time |-> IF race_seconds = None THEN 0 ELSE race_seconds,
                     timestamp |-> now]]

\* _websocket_handler of Main.py up to wait_closed: the client is registered
\* and sent the snapshot; when the peer is gone already the send raises
\* ConnectionClosed and the finally clause unregisters the client
MainHandlerStart(c) ==
  /\ running
  /\ handler_pc[c] = "idle"
  /\ IF connection[c] = "open"
     THEN /\ websocket_clients' = websocket_clients \cup {c}
          /\ received' = [received EXCEPT ![c] = Append(@, MainInitialData)]
          /\ handler_pc' = [handler_pc EXCEPT ![c] = "waiting"]
     ELSE /\ websocket_clients' = (websocket_clients \cup {c}) \ {c}
          /\ received' = received
          /\ handler_pc' = [handler_pc EXCEPT ![c] = "done"]
  /\ UNCHANGED <<lookup, decoderVars, fileVars, raceVars, broadcaster, connection,
                 running, data_queue, com_buffers, now, raceHistory, hubHistory, fileHistory>>

\* _websocket_handler of Main.py from wait_closed on: the finally clause
\* discards the client
MainHandlerClosed(c) ==
  /\ handler_pc[c] = "waiting"
  /\ connection[c] = "closed"
  /\ websocket_clients' = websocket_clients \ {c}
  /\ handler_pc' = [handler_pc EXCEPT ![c] = "done"]
  /\ UNCHANGED <<lookup, decoderVars, fileVars, raceVars, broadcaster, connection, received,
                 running, data_queue, com_buffers, now, raceHistory, hubHistory, fileHistory>>

\* the broadcaster of Main.py at rest
MainIdle == [pc |-> "idle", message |-> <<>>, todo |-> <<>>, disconnected |-> {}]

\* _websocket_broadcaster of Main.py from the emptiness test to the first
\* await: an item is taken off the queue; with no client it is dropped, else
\* the for loop starts to iterate over the set websocket_clients itself, and
\* the send to the client the iterator gives first is awaited. used is the
\* size of the set the iterator remembers, visited the clients it has given
MainBroadcasterGet ==
  /\ running
  /\ broadcaster.pc = "idle"
  /\ data_queue # <<>>
  /\ data_queue' = QueueGet(data_queue).rest
  /\ h_round' = [clients |-> websocket_clients, log |-> <<>>]
  /\ h_expect' = [c \in Clients |->
                    IF c \in websocket_clients
                    THEN Append(h_expect[c], QueueGet(data_queue).item) ELSE h_expect[c]]
  /\ IF websocket_clients # {}
     THEN \E c \in websocket_clients :
            broadcaster' = [pc |-> "sending", message |-> <<QueueGet(data_queue).item>>,
                            todo |-> <<c>>, disconnected |-> {},
                            visited |-> {}, used |-> Cardinality(websocket_clients)]
     ELSE broadcaster' = MainIdle
  /\ UNCHANGED <<lookup, decoderVars, fileVars, raceVars, websocket_clients, handler_pc,
                 connection, received, running, com_buffers, now, raceHistory,
                 fileHistory>>

\* _websocket_broadcaster of Main.py from the return of an awaited send to
\* the next await: the send has raised ConnectionClosed when the connection is
\* closed; the iterator of the set is then asked for the next client. When
\* the size of the set is not the one the iterator remembers it raises
\* RuntimeError ("Set changed size during iteration"), which the outer except
\* clause catches: the rest of the loop and the removal of the disconnected
\* clients are skipped. Otherwise it gives a client of the set it has not
\* given yet, and when every client that was in the set from the start has
\* been given it may stop; the disconnected clients are then removed
MainBroadcasterSend ==
  /\ running
  /\ broadcaster.pc = "sending"
  /\ LET client == broadcaster.todo[1]
         ok == connection[client] = "open"
         disconnected == IF ok THEN broadcaster.disconnected
                         ELSE broadcaster.disconnected \cup {client}
         visited == broadcaster.visited \cup {client}
         candidates == websocket_clients \ visited
     IN /\ received' = IF ok THEN [received EXCEPT ![client] = Append(@, broadcaster.message[1])]
                       ELSE received
        /\ h_round' = [h_round EXCEPT !.log = Append(@, <<client, ok>>)]
        /\ IF Cardinality(websocket_clients) # broadcaster.used
           THEN /\ broadcaster' = MainIdle
                /\ UNCHANGED websocket_clients
           ELSE \/ \E c \in candidates :
                     /\ broadcaster' = [broadcaster EXCEPT !.todo = <<c>>,
                                                            !.disconnected = disconnected,
                                                            !.visited = visited]
                     /\ UNCHANGED websocket_clients
                \/ /\ candidates \cap h_round.clients = {}
                   /\ broadcaster' = MainIdle
                   /\ websocket_clients' = RemoveDisconnected(websocket_clients, disconnected)
  /\ UNCHANGED <<lookup, decoderVars, fileVars, raceVars, handler_pc, connection, running,
                 data_queue, com_buffers, now, raceHistory, h_expect, fileHistory>>

NextMainHub ==
  \/ MainRun
  \/ \E data \in MainDeltas : MainSendWebsocketData(data)
  \/ MainBroadcasterGet
  \/ MainBroadcasterSend
  \/ \E c \in Clients : MainHandlerStart(c)
  \/ \E c \in Clients : MainHandlerClosed(c)
  \/ \E c \in Clients : ClientClose(c)

SpecMainHub == InitRace /\ [][NextMainHub]_vars

\* C36: when the broadcast of a message ends, the message has been sent to
\* every client that was registered when it began and is still registered
\* with an open connection, whichever clients were added to or removed from
\* the set meanwhile
C36_BroadcastSurvivesChange ==
  [][(broadcaster.pc = "sending" /\ broadcaster'.pc = "idle") =>
       \A c \in h_round'.clients \cap websocket_clients' :
         connection[c] = "open" =>
           \E i \in 1..Len(h_round'.log) : h_round'.log[i] = <<c, TRUE>>]_vars

\* ------------------------------------------------------------------------
\* Data bytes and the cells of a channel
\* ------------------------------------------------------------------------
\* C37: a read of one data byte while the readout is disabled leaves the
\* display and the stream state as they were; while it is enabled it leaves
\* the stream state and every cell but the one at the byte's high nibble in
\* the selected channel, which holds the character of the low nibble after it
C37_DataByteFrame ==
  [][\A b \in 0..127 :
       Tick(DecoderStep, <<b>>) =>
         IF ~stream_state.data_readout
         THEN display' = display /\ stream_state' = stream_state
         ELSE /\ stream_state' = stream_state
              /\ \A c \in 0..31, i \in 0..7 :
                   (c # stream_state.channel \/ i # b \div 16) =>
                     display'[c][i] = display[c][i]
              /\ display'[stream_state.channel][b \div 16] =
                   IF stream_state.channel > 0 /\ b % 16 = 0 THEN 32 ELSE 63 - (b % 16)]_vars

\* the clock row was painted, which leaves channel 0 selected with the
\* readout enabled, and a data byte then stored '7' in cell 0 of the channel:
\* the other cells of the row are as painted, '?' for the blanks of channel 0
C37_Witness ==
  /\ now = StartTime + DecoderStep
  /\ stream_state = [data_readout |-> TRUE, channel |-> 0]
  /\ display[0] = [i \in 0..7 |-> IF i = 0 THEN 55 ELSE IF i < 4 THEN 63
                                   ELSE ClockTwelve[i + 1]]

\* channel 5 was selected with the readout disabled and a read of one byte
\* followed: the channel is still blank
C37_WitnessOff ==
  /\ now = StartTime + DecoderStep
  /\ stream_state = [data_readout |-> FALSE, channel |-> 5]
  /\ display[5] = BlankChannel

\* the cells of channel c the step makes blank
Blanked(c) == {i \in 0..7 : display[c][i] # 32 /\ display'[c][i] = 32}

\* C38 as stated: a step that makes a cell of a channel blank leaves all 8
\* cells of the channel blank
C38_BlankOnlyByReset ==
  [][\A c \in 0..31 : Blanked(c) # {} => \A i \in 0..7 : display'[c][i] = 32]_vars

\* C38 as the code has it: a read of one byte makes cells of a channel blank
\* either by a control byte above 190, which leaves all 8 cells of the channel
\* it addresses blank, or by a data byte with low nibble 0 received with the
\* readout enabled on a channel above 0, which makes the one cell at its high
\* nibble blank and leaves the other cells of the channel as they were
C38_ResetOrSingleCell ==
  [][\A b \in 0..255 :
       Tick(DecoderStep, <<b>>) =>
         \A c \in 0..31 :
           Blanked(c) # {} =>
             IF b > 190
             THEN /\ c = 31 - ((b \div 2) % 32)
                  /\ \A i \in 0..7 : display'[c][i] = 32
             ELSE /\ b <= 127
                  /\ stream_state.data_readout
                  /\ c = stream_state.channel
                  /\ c > 0
                  /\ b % 16 = 0
                  /\ Blanked(c) = {b \div 16}
                  /\ \A i \in (0..7) \ {b \div 16} : display'[c][i] = display[c][i]]_vars

\* lane 1 and the event row were painted in one read, which leaves channel 12
\* selected, and a data byte with nibble 0 then made cell 0 of the event row
\* blank: the heat in cell 5 is still shown
C38_Witness ==
  /\ now = StartTime + DecoderStep
  /\ stream_state = [data_readout |-> TRUE, channel |-> EVENT_HEAT_CHANNEL]
  /\ display[EVENT_HEAT_CHANNEL][0] = 32
  /\ display[EVENT_HEAT_CHANNEL][5] = 49
  /\ display[1][0] = 49

\* ------------------------------------------------------------------------
\* The received count of a lane
\* ------------------------------------------------------------------------
\* the FinishTime messages for a lane among the first i messages of a list
FinishTimesUpTo(msgs, i, lane) ==
  Cardinality({j \in 1..i : msgs[j].kind = "FinishTime" /\ msgs[j].lane = lane})

\* the number of FinishTime messages of the heat for a lane before the step
FinishedBefore(lane) == IF EventOrHeatChanged THEN 0 ELSE h_finish[lane]

\* the poll accepts the time lane shows: the clock runs and shows 1.0 s or
\* more, the place cell holds no DQ flag, the time differs from the lane's
\* last raw time and has two non-zero digits, and the lane has a swimmer
AcceptsTime(lane) ==
  /\ timer_running'
  /\ ~EarlyClock
  /\ \E lt \in {GetLaneTime(display', lane)} :
       /\ lt.time # <<>>
       /\ ~IsDQPlace(lt.place)
       /\ lt.time # RawBeforeLanes[lane]
       /\ Len(SelectSeq(lt.time, LAMBDA c : c \in 49..57)) >= 2
  /\ SwimmerName(last_swimmers', lane) # <<>>

\* C39: the count of a lane is the number of FinishTime messages queued for
\* it since the last event or heat change, and the k-th of them carries the
\* timeNumber k; a time the poll accepts is queued and counted whatever the
\* count is, and with a timeNumber above expected_times_per_lane it is a FINISH
C39_CountIsMessages ==
  [][/\ \A lane \in Lanes : lane_time_counts'[lane] = h_finish'[lane]
     /\ \A i \in 1..Len(Queued) :
          Queued[i].kind = "FinishTime" =>
            /\ Queued[i].timeNumber =
                 FinishedBefore(Queued[i].lane) + FinishTimesUpTo(Queued, i, Queued[i].lane)
            /\ Queued[i].timeNumber > expected_times_per_lane' => Queued[i].type = "FINISH"
     /\ running =>
          \A lane \in Lanes :
            AcceptsTime(lane) =>
              /\ CountKindLane(Queued, "FinishTime", lane) = 1
              /\ lane_time_counts'[lane] = CountsBeforeStop[lane] + 1]_vars

\* lane 1 of a 50 m heat, where one time is expected, has two: the second is
\* queued as a FINISH with timeNumber 2
C39_Witness ==
  /\ expected_times_per_lane = 1
  /\ lane_time_counts[1] = 2
  /\ h_finish[1] = 2
  /\ \E i \in 1..Len(data_queue) :
       /\ data_queue[i].kind = "FinishTime"
       /\ data_queue[i].lane = 1
       /\ data_queue[i].timeNumber = 2
       /\ data_queue[i].type = "FINISH"

\* ------------------------------------------------------------------------
\* The state at the end of a tick
\* ------------------------------------------------------------------------
\* how far the wall clock advances while the ticks are observed
TickElapsed == 200

\* a 100 m and a 50 m event; the clock shows nothing, 0.09, 0.10 or 12.00;
\* lane 1 shows a time
ReadsTick ==
  ReadsOf({EventHeatRow(1, 1), EventHeatRow(2, 1)},
          {ClockBlank, ClockNine, ClockTen, ClockTwelve},
          {LaneRow(1, 49, TimeA)},
          {})

\* the main loop polls every 0 or 100 ms
NextTick ==
  \/ StartRun
  \/ \E dt \in {0, 100}, bytes \in ReadsTick :
       now + dt <= StartTime + TickElapsed /\ Tick(dt, bytes)
  \/ BroadcasterGet

SpecTick == InitRace /\ [][NextTick]_vars

\* the step is an iteration of the main loop: the system runs and the step
\* takes nothing off the queue
TickStep == running /\ Len(data_queue') >= Len(data_queue)

\* C40: at the end of a tick the stored clock text is the one read from the
\* display, timer_running holds exactly when that text parses to more than
\* 0.09 s, and the stored event and heat are the ones read from the display;
\* the text stored before the tick is the one the tick before read ("" before
\* the first tick), and a tick that reads the same text again queues no
\* TimerSync and no Saved and leaves the clock state as it was
C40_TickEnd ==
  [][TickStep =>
       \A text \in {GetRaceTime(display')} : \A p \in {ParseTimeToSeconds(text)} :
         /\ last_race_time' = text
         /\ timer_running' <=> (p # None /\ p > 9)
         /\ <<last_event', last_heat'>> = GetEventAndHeat(display')
         /\ last_race_time = <<>> \/ last_race_time = GetRaceTime(display)
         /\ text = last_race_time =>
              /\ \A i \in 1..Len(Queued) : Queued[i].kind \notin {"TimerSync", "Saved"}
              /\ <<timer_running', timer_start_time', timer_offset', last_sync_time'>>
                   = <<timer_running, timer_start_time, timer_offset, last_sync_time>>]_vars

\* the clock of the 50 m event runs at 0.10 s, 100 ms after the start of the
\* program, and the ticks since the start message have queued nothing more
C40_Witness ==
  /\ timer_running
  /\ ParseTimeToSeconds(last_race_time) = 10
  /\ last_event = <<50>>
  /\ GetEventAndHeat(display) = <<<<50>>, <<49>>>>
  /\ GetRaceTime(display) = last_race_time
  /\ timer_start_time = StartTime
  /\ now = StartTime + 100
  /\ data_queue = <<>>

====
